---------------------------- MODULE Spec2Model ----------------------------
(***************************************************************************)
(* A model of the file organiser: core/file_organizer.py (FileOrganizer)   *)
(* and the undo entry of cli/main.py.                                      *)
(*                                                                         *)
(* Text (file names, extensions, rule conditions) is a sequence of         *)
(* one-character strings, so that suffix extraction, lower-casing and      *)
(* substring tests are computed and not assumed.  A path is a sequence of  *)
(* names.  The filesystem is a function from the existing paths to nodes.  *)
(***************************************************************************)
EXTENDS Integers, Sequences, FiniteSets, TLC

VARIABLES
    fs,                 \* the filesystem: existing path -> node
    operation_history,  \* FileOrganizer.operation_history of the live instance
    persisted,          \* operation_history.json: whether it exists, its records
    clock,              \* the operations logged so far (datetime.now())
    call,               \* the call that has just ended: its arguments and outcome
    config,             \* FileOrganizer.config: the loaded configuration document
    monitor             \* the FileChangeHandler and its threads

vars == <<fs, operation_history, persisted, clock, call, config, monitor>>

----------------------------------------------------------------------------
(* Bounds of the model.                                                    *)

\* files of a user that are in or below the folder at a time
MaxFiles == 2
\* non-dry-run organize calls that are logged (values of the clock)
MaxOps == 2

----------------------------------------------------------------------------
(* Text: str methods used by the code, on sequences of characters.         *)

UpperChars == <<"A","B","C","D","E","F","G","H","I","J","K","L","M",
                "N","O","P","Q","R","S","T","U","V","W","X","Y","Z">>
LowerChars == <<"a","b","c","d","e","f","g","h","i","j","k","l","m",
                "n","o","p","q","r","s","t","u","v","w","x","y","z">>

\* str.lower() of one character
LowerChar(c) ==
    IF \E i \in DOMAIN UpperChars : UpperChars[i] = c
    THEN LowerChars[CHOOSE i \in DOMAIN UpperChars : UpperChars[i] = c]
    ELSE c

\* str.lower() (SubSeq makes the result a sequence in normal form)
Lower(s) == SubSeq([i \in DOMAIN s |-> LowerChar(s[i])], 1, Len(s))

\* str.startswith(p)
StartsWith(s, p) == Len(s) >= Len(p) /\ SubSeq(s, 1, Len(p)) = p

\* `p in s` for strings
Contains(s, p) ==
    \E i \in 1..(Len(s) - Len(p) + 1) : SubSeq(s, i, i + Len(p) - 1) = p

\* str.find(p), 1-based; 0 when p does not occur
Find(s, p) ==
    IF Contains(s, p)
    THEN CHOOSE i \in 1..(Len(s) - Len(p) + 1) :
            /\ SubSeq(s, i, i + Len(p) - 1) = p
            /\ \A j \in 1..(i - 1) : SubSeq(s, j, j + Len(p) - 1) # p
    ELSE 0

\* str.rfind(c) for one character, 1-based; 0 when c does not occur
RFindChar(s, c) ==
    IF \E i \in DOMAIN s : s[i] = c
    THEN CHOOSE i \in DOMAIN s : s[i] = c /\ \A j \in (i + 1)..Len(s) : s[j] # c
    ELSE 0

RECURSIVE LStrip(_, _)
\* str.lstrip(c) for one character
LStrip(s, c) == IF Len(s) > 0 /\ s[1] = c THEN LStrip(Tail(s), c) ELSE s

RECURSIVE RStrip(_, _)
\* the right half of str.strip(c)
RStrip(s, c) ==
    IF Len(s) > 0 /\ s[Len(s)] = c THEN RStrip(SubSeq(s, 1, Len(s) - 1), c) ELSE s

\* str.strip(c) for one character
Strip(s, c) == RStrip(LStrip(s, c), c)

DigitChars == <<"0","1","2","3","4","5","6","7","8","9">>

RECURSIVE Str(_)
\* str(n) of a natural number, as in an f-string
Str(n) == IF n < 10 THEN <<DigitChars[n + 1]>>
          ELSE Str(n \div 10) \o <<DigitChars[(n % 10) + 1]>>

IsDigit(c) == \E i \in DOMAIN DigitChars : DigitChars[i] = c

DigitValue(c) == (CHOOSE i \in DOMAIN DigitChars : DigitChars[i] = c) - 1

RECURSIVE DigitsValue(_)
DigitsValue(s) ==
    IF Len(s) = 0 THEN 0
    ELSE 10 * DigitsValue(SubSeq(s, 1, Len(s) - 1)) + DigitValue(s[Len(s)])

\* the digits of an integer literal: s without its sign
Unsigned(s) == IF Len(s) > 0 /\ s[1] \in {"+", "-"} THEN Tail(s) ELSE s

\* int(s) succeeds on an optional sign and a non-empty run of digits;
\* anything else is a ValueError
IntParses(s) == Len(Unsigned(s)) > 0 /\ \A i \in DOMAIN Unsigned(s) : IsDigit(Unsigned(s)[i])

\* int(s)
IntValue(s) ==
    IF Len(s) > 0 /\ s[1] = "-" THEN 0 - DigitsValue(Unsigned(s))
    ELSE DigitsValue(Unsigned(s))

----------------------------------------------------------------------------
(* Paths: pathlib.Path as a sequence of names.                             *)

\* Path.name
PathName(p) == p[Len(p)]

\* Path.parent
PathParent(p) == SubSeq(p, 1, Len(p) - 1)

\* Path / name
Join(p, n) == Append(p, n)

\* Path.suffix: from the last dot, unless that dot is first or last
Suffix(name) ==
    LET i == RFindChar(name, ".")
    IN  IF 1 < i /\ i < Len(name) THEN SubSeq(name, i, Len(name)) ELSE <<>>

\* file.suffix.lower().lstrip('.')
FileExt(name) == LStrip(Lower(Suffix(name)), ".")

\* index of the first character of name that is not a dot (Len+1 if none)
FirstNonDot(name) ==
    IF \E i \in DOMAIN name : name[i] # "."
    THEN CHOOSE i \in DOMAIN name : name[i] # "." /\ \A j \in 1..(i - 1) : name[j] = "."
    ELSE Len(name) + 1

\* os.path.splitext: the extension starts at the last dot, provided a
\* character other than a dot precedes it
SplitExt(name) ==
    LET i == RFindChar(name, ".")
    IN  IF i > 0 /\ FirstNonDot(name) < i
        THEN <<SubSeq(name, 1, i - 1), SubSeq(name, i, Len(name))>>
        ELSE <<name, <<>> >>

----------------------------------------------------------------------------
(* The names, folders and files of the modelled world.                     *)

Dn == <<"d">>                               \* the folder being organised
Mn == <<"m">>                               \* a name that does not exist
NameA == <<"a", ".", "j", "p", "g">>
NameB == <<"b", ".", "T", "X", "T">>
NameC == <<"c", ".", "x", "y", "z">>
NameN == <<"n", ".", "t", "x", "t">>
NameE == <<"e", ".", "m", "d">>
NameL == <<"l", ".", "t", "x", "t">>
NameV == <<"v", ".", "t", "x", "t">>
NameH == <<".", "h">>
NameT == <<"~", "t">>
Others == <<"O", "t", "h", "e", "r", "s">>
OldFiles == <<"O", "l", "d", "_", "F", "i", "l", "e", "s">>
Images == <<"I", "m", "a", "g", "e", "s">>
Documents == <<"D", "o", "c", "u", "m", "e", "n", "t", "s">>
CatImages == <<"i", "m", "a", "g", "e", "s">>
CatDocuments == <<"d", "o", "c", "u", "m", "e", "n", "t", "s">>
Tiny == <<"T", "i", "n", "y">>
Medium == <<"M", "e", "d">>
Recent == <<"R", "e", "c", "e", "n", "t">>
ThisMonth == <<"M", "o", "n", "t", "h">>
Invoices == <<"I", "n", "v", "o", "i", "c", "e", "s">>
Resumes == <<"R", "e", "s", "u", "m", "e", "s">>
Sensitive == <<"S", "e", "n", "s", "i", "t", "i", "v", "e">>
Big == <<"B", "i", "g">>
RuleBig == <<"b", "i", "g", "_", "t", "x", "t">>
Notes == <<"N", "o", "t", "e", "s">>
RuleTxt == <<"a", "l", "l", "_", "t", "x", "t">>

\* A node of the filesystem.  A file carries an identity (the name it was
\* created under and which file of that name it is), whatever path it has
\* now, its byte length, its age in days and the start of its text.
DirNode ==
    [kind |-> "dir", born |-> << >>, id |-> 0, size |-> 0, days |-> 0, text |-> << >>]
FileNode(born, id, size, days, text) ==
    [kind |-> "file", born |-> born, id |-> id, size |-> size, days |-> days,
     text |-> text]

\* The files a user may drop into the folder: name, size, age, text.
Dropped ==
    { [name |-> NameA, size |-> 5,  days |-> 0,  text |-> <<>>],
      [name |-> NameB, size |-> 10, days |-> 40, text |-> <<"B","i","l","l"," ","c","v">>],
      [name |-> NameC, size |-> 5,  days |-> 7,  text |-> <<>>],
      [name |-> Others, size |-> 200, days |-> 7, text |-> <<"k","e","y">>] }

\* "key", blanks, and "bill" from the 1022nd character on: f.read(1024)
\* ends inside that word
LongText ==
    [i \in 1..1025 |->
        IF i <= 3 THEN <<"k", "e", "y">>[i]
        ELSE IF i >= 1022 THEN <<"b", "i", "l", "l">>[i - 1021]
        ELSE " "]

\* The files written into a folder whose plan is looked at: those of
\* Dropped and files that meet the other branches of the classifiers.
Written ==
    Dropped \cup
    { [name |-> NameN, size |-> 100, days |-> 30,
       text |-> <<"m","y"," ","C","V"," ","k","e","y">>],
      [name |-> NameE, size |-> 11, days |-> 8, text |-> <<"h","e","l","l","o">>],
      [name |-> NameL, size |-> 101, days |-> 31, text |-> LongText] }

Exists(f, p) == p \in DOMAIN f
IsDir(f, p) == Exists(f, p) /\ f[p].kind = "dir"
IsFile(f, p) == Exists(f, p) /\ f[p].kind = "file"

\* the entries of directory p
Children(f, p) == {q \in DOMAIN f : Len(q) = Len(p) + 1 /\ PathParent(q) = p}

\* f with path p bound to node n
Bind(f, p, n) == [q \in (DOMAIN f) \cup {p} |-> IF q = p THEN n ELSE f[q]]

\* f without path p
Unbind(f, p) == [q \in (DOMAIN f) \ {p} |-> f[q]]

----------------------------------------------------------------------------
(* The configuration document (FileOrganizer.config): the keys the code    *)
(* reads.  The categories map is ordered as the document lists it.         *)

FullCategories ==
    << [name |-> CatImages,    extensions |-> {<<"j","p","g">>, <<"p","n","g">>},
        folder_name |-> Images],
       [name |-> CatDocuments, extensions |-> {<<"t","x","t">>, <<"p","d","f">>},
        folder_name |-> Documents] >>

FullSizeCategories ==
    << [name |-> Tiny, max_size |-> 10], [name |-> Medium, max_size |-> 100] >>

FullDateCategories ==
    << [name |-> Recent, max_days |-> 7], [name |-> ThisMonth, max_days |-> 30] >>

FullProfiles ==
    [p \in {"default", "work"} |->
        IF p = "default"
        THEN [enabled_categories |-> <<CatDocuments, CatImages>>, rules |-> << >>]
        ELSE [enabled_categories |-> <<CatDocuments>>, rules |-> <<RuleBig>>]]

\* "extension == 'txt' and size > 5"
CondBigTxt ==
        <<"e","x","t","e","n","s","i","o","n"," ","=","="," ","'","t","x","t",
          "'"," ","a","n","d"," ","s","i","z","e"," ",">"," ","5">>

\* "extension == 'txt'"
CondTxt == SubSeq(CondBigTxt, 1, 18)

FullRules ==
    << [name |-> RuleBig, condition |-> CondBigTxt, target |-> Big] >>



\* the configuration the instances of Spec and SpecHistory load
FullConfig ==
    [categories |-> FullCategories, size_categories |-> FullSizeCategories,
     date_categories |-> FullDateCategories, profiles |-> FullProfiles,
     rules |-> FullRules]

\* _load_config when no configuration file is found: {}; every
\* `.get(key, default)` then yields its default
EmptyConfig ==
    [categories |-> << >>, size_categories |-> << >>, date_categories |-> << >>,
     profiles |-> << >>, rules |-> << >>]

\* a configuration in which jpg is listed by two categories, two rules
\* match the same files, and the profiles name categories and rules in
\* an order other than the configuration's own
AltConfig ==
    [categories |->
        << [name |-> CatImages, extensions |-> {<<"j","p","g">>, <<"p","n","g">>},
            folder_name |-> Images],
           [name |-> CatDocuments,
            extensions |-> {<<"t","x","t">>, <<"p","d","f">>, <<"j","p","g">>},
            folder_name |-> Documents] >>,
     size_categories |-> FullSizeCategories,
     date_categories |-> FullDateCategories,
     rules |->
        << [name |-> RuleBig, condition |-> CondBigTxt, target |-> Big],
           [name |-> RuleTxt, condition |-> CondTxt, target |-> Notes] >>,
     profiles |->
        [p \in {"default", "work", "personal"} |->
            IF p = "default"
            THEN [enabled_categories |-> <<CatDocuments, CatImages>>, rules |-> << >>]
            ELSE IF p = "work"
            THEN [enabled_categories |-> <<CatDocuments, CatImages>>,
                  rules |-> <<RuleTxt, RuleBig>>]
            ELSE [enabled_categories |-> <<CatImages>>, rules |-> <<RuleBig>>]]]

\* the conditions of the rules tried: filename_contains with one keyword,
\* with two and with an unquoted one, extension alone, a size bound that
\* is no number, a size bound that is missing, a condition of no known
\* form, an age bound and an age bound that is no number
\* "filename_contains('inv')"
CondInv ==
    <<"f","i","l","e","n","a","m","e","_","c","o","n","t","a","i","n","s",
      "(","'","i","n","v","'",")">>

\* "filename_contains('inv', 'bill')"
CondInvBill ==
    <<"f","i","l","e","n","a","m","e","_","c","o","n","t","a","i","n","s",
      "(","'","i","n","v","'",","," ","'","b","i","l","l","'",")">>

\* "filename_contains(inv)"
CondInvBare ==
    <<"f","i","l","e","n","a","m","e","_","c","o","n","t","a","i","n","s",
      "(","i","n","v",")">>

\* "extension == 'jpg'"
CondJpg ==
    <<"e","x","t","e","n","s","i","o","n"," ","=","="," ","'","j","p","g",
      "'">>

\* "extension == 'txt' and size > big"
CondSizeWord ==
    <<"e","x","t","e","n","s","i","o","n"," ","=","="," ","'","t","x","t",
      "'"," ","a","n","d"," ","s","i","z","e"," ",">"," ","b","i","g">>

\* "extension == 'txt' and size >"
CondSizeNone ==
    <<"e","x","t","e","n","s","i","o","n"," ","=","="," ","'","t","x","t",
      "'"," ","a","n","d"," ","s","i","z","e"," ",">">>

\* "name == 'v.txt'"
CondUnknown ==
    <<"n","a","m","e"," ","=","="," ","'","v",".","t","x","t","'">>

\* "modified_days_ago > 7"
CondOld ==
    <<"m","o","d","i","f","i","e","d","_","d","a","y","s","_","a","g","o",
      " ",">"," ","7">>

\* "modified_days_ago > soon"
CondOldWord ==
    <<"m","o","d","i","f","i","e","d","_","d","a","y","s","_","a","g","o",
      " ",">"," ","s","o","o","n">>

Conditions ==
    { CondInv, CondInvBill, CondInvBare, CondJpg, CondTxt, CondBigTxt, CondSizeWord,
      CondSizeNone, CondUnknown, CondOld, CondOldWord }

\* a configuration with two rules, the rule of the full configuration and
\* at position k a rule with the condition tried; profile work names both
RuleConfig(condition, k) ==
    [FullConfig EXCEPT
        !.rules = [j \in {1, 2} |->
                      IF j = k
                      THEN [name |-> RuleTxt, condition |-> condition, target |-> Notes]
                      ELSE [name |-> RuleBig, condition |-> CondBigTxt, target |-> Big]],
        !.profiles = [p \in {"default", "work"} |->
                        IF p = "default" THEN FullProfiles[p]
                        ELSE [enabled_categories |-> <<CatDocuments>>,
                              rules |-> <<RuleTxt, RuleBig>>]]]

RuleConfigs == {RuleConfig(c, k) : c \in Conditions, k \in {1, 2}}

NameInv == <<"I","n","v",".","p","d","f">>
NameBill == <<"b","i","l","l",".","t","x","t">>

\* the files written where rules are tried: names holding a keyword in
\* another case, text files of at most and of more than 5 bytes, and a
\* temporary file
Ruled ==
    { [name |-> NameInv,  size |-> 9,  days |-> 7,  text |-> << >>],
      [name |-> NameBill, size |-> 5,  days |-> 8,  text |-> << >>],
      [name |-> NameA,    size |-> 5,  days |-> 0,  text |-> << >>],
      [name |-> NameB,    size |-> 10, days |-> 40, text |-> << >>],
      [name |-> NameV,    size |-> 6,  days |-> 0,  text |-> << >>] }

\* the configurations an instance may have loaded
Configs == {FullConfig, EmptyConfig, AltConfig}

\* self.config.get('categories', {}) and the like
ConfigCategories == config.categories
ConfigSizeCategories == config.size_categories
ConfigDateCategories == config.date_categories
ConfigProfiles == config.profiles
ConfigRules == config.rules

\* self.config.get('profiles', {}).get(profile, {})
ProfileConfig(profile) ==
    IF profile \in DOMAIN ConfigProfiles
    THEN ConfigProfiles[profile]
    ELSE [enabled_categories |-> << >>, rules |-> << >>]

----------------------------------------------------------------------------
(* _scan_files                                                             *)


\* a faulty variant of _scan_files that keeps the files whose name starts
\* with '~'
ScanSetTilde(f, folder_path) ==
    {q \in Children(f, folder_path) :
        IsFile(f, q) /\ ~StartsWith(PathName(q), <<".">>)}

\* the entries _scan_files keeps: regular files whose name starts with
\* neither '.' nor '~'
ScanSet(f, folder_path) ==
    {q \in Children(f, folder_path) :
        /\ IsFile(f, q)
        /\ ~StartsWith(PathName(q), <<".">>)
        /\ ~StartsWith(PathName(q), <<"~">>)}

\* the orders in which iterdir() may enumerate a set of entries
Listings(S) ==
    {l \in [1..Cardinality(S) -> S] : \A i, j \in DOMAIN l : i # j => l[i] # l[j]}

\* `x in list`
InList(x, l) == \E i \in DOMAIN l : l[i] = x

\* the index at which a for loop with a break stops: hits[i] tells whether
\* the i-th element makes the loop break; 0 when the loop runs to its end
FirstIndex(hits) ==
    IF \E i \in DOMAIN hits : hits[i]
    THEN CHOOSE i \in DOMAIN hits : hits[i] /\ \A j \in 1..(i - 1) : ~hits[j]
    ELSE 0

----------------------------------------------------------------------------
(* The classifiers: each maps the scanned files, in scan order, to a plan. *)

PlanItem(file, target, category, reason) ==
    [file |-> file, source |-> file, target |-> target,
     category |-> category, reason |-> reason]


\* a variant of TypeTargetCategory that walks the profile's list of enabled
\* categories instead of the categories map: the folder_name of the first
\* category, in the profile's order, that lists the extension
TypeTargetCategoryProfileOrder(file_ext, enabled_categories) ==
    LET Listed(n) == \E k \in DOMAIN ConfigCategories :
                        /\ ConfigCategories[k].name = n
                        /\ file_ext \in ConfigCategories[k].extensions
        i == FirstIndex([j \in DOMAIN enabled_categories |-> Listed(enabled_categories[j])])
    IN  IF i = 0 THEN <<>>
        ELSE (CHOOSE c \in {ConfigCategories[k] : k \in DOMAIN ConfigCategories} :
                  c.name = enabled_categories[i]).folder_name

\* a faulty variant of TypeTargetCategory that forgets the profile: every
\* category of the configuration counts as enabled
TypeTargetCategoryAny(file_ext, enabled_categories) ==
    LET Hit(c) == file_ext \in c.extensions
        i == FirstIndex([k \in DOMAIN ConfigCategories |-> Hit(ConfigCategories[k])])
    IN  IF i = 0 THEN <<>> ELSE ConfigCategories[i].folder_name

\* the loop of _organize_by_type over the categories map: the folder_name
\* of the first category, in the map's order, that is enabled and lists
\* the extension; <<>> stands for None
TypeTargetCategory(file_ext, enabled_categories) ==
    LET Hit(c) == InList(c.name, enabled_categories) /\ file_ext \in c.extensions
        i == FirstIndex([k \in DOMAIN ConfigCategories |-> Hit(ConfigCategories[k])])
    IN  IF i = 0 THEN <<>> ELSE ConfigCategories[i].folder_name

_organize_by_type(f, files, base_path, enabled_categories) ==
    [i \in DOMAIN files |->
        LET file == files[i]
            file_ext == FileExt(PathName(file))
            target_category == TypeTargetCategory(file_ext, enabled_categories)
        IN  IF target_category # <<>>
            THEN PlanItem(file, Join(Join(base_path, target_category), PathName(file)),
                          target_category, <<"File type: ", file_ext>>)
            ELSE PlanItem(file, Join(Join(base_path, Others), PathName(file)),
                          Others, <<"Uncategorized file type", <<>> >>)]

SizeUnits == << <<"B">>, <<"K","B">>, <<"M","B">>, <<"G","B">>, <<"T","B">> >>

RECURSIVE Pow1024(_)
Pow1024(k) == IF k = 0 THEN 1 ELSE 1024 * Pow1024(k - 1)

\* _format_size: divide by 1024 until below 1024 (at most four times), then
\* one decimal place, rounded half to even as the format does
_format_size(size_bytes) ==
    LET Below(k) == size_bytes < 1024 * Pow1024(k)
        k == IF \E j \in 0..3 : Below(j)
             THEN CHOOSE j \in 0..3 : Below(j) /\ \A h \in 0..(j - 1) : ~Below(h)
             ELSE 4
        d == Pow1024(k)
        q == (size_bytes * 10) \div d
        r == (size_bytes * 10) % d
        tenths == IF 2 * r > d \/ (2 * r = d /\ q % 2 = 1) THEN q + 1 ELSE q
    IN  Str(tenths \div 10) \o <<".">> \o Str(tenths % 10) \o <<" ">> \o SizeUnits[k + 1]


\* a faulty variant of the size classifier that compares with < instead
\* of <=
SizeTargetCategoryStrict(file_size) ==
    LET i == FirstIndex([k \in DOMAIN ConfigSizeCategories |->
                            file_size < ConfigSizeCategories[k].max_size])
    IN  IF i = 0 THEN Others ELSE ConfigSizeCategories[i].name

\* the loop of _organize_by_size over size_categories, in the map's order
SizeTargetCategory(file_size) ==
    LET Hit(c) == file_size <= c.max_size
        i == FirstIndex([k \in DOMAIN ConfigSizeCategories |->
                            Hit(ConfigSizeCategories[k])])
    IN  IF i = 0 THEN Others ELSE ConfigSizeCategories[i].name

_organize_by_size(f, files, base_path) ==
    [i \in DOMAIN files |->
        LET file == files[i]
            file_size == f[file].size
            target_category == SizeTargetCategory(file_size)
        IN  PlanItem(file, Join(Join(base_path, target_category), PathName(file)),
                     target_category, <<"Size: ", _format_size(file_size)>>)]



\* a faulty variant of the date classifier that compares with < instead
\* of <=
DateTargetCategoryStrict(days_ago) ==
    LET i == FirstIndex([k \in DOMAIN ConfigDateCategories |->
                            days_ago < ConfigDateCategories[k].max_days])
    IN  IF i = 0 THEN OldFiles ELSE ConfigDateCategories[i].name

\* a faulty variant of the date classifier whose default category is
\* "Others"
DateTargetCategoryOthers(days_ago) ==
    LET i == FirstIndex([k \in DOMAIN ConfigDateCategories |->
                            days_ago <= ConfigDateCategories[k].max_days])
    IN  IF i = 0 THEN Others ELSE ConfigDateCategories[i].name

\* the loop of _organize_by_date over date_categories, in the map's order
DateTargetCategory(days_ago) ==
    LET Hit(c) == days_ago <= c.max_days
        i == FirstIndex([k \in DOMAIN ConfigDateCategories |->
                            Hit(ConfigDateCategories[k])])
    IN  IF i = 0 THEN OldFiles ELSE ConfigDateCategories[i].name

_organize_by_date(f, files, base_path) ==
    [i \in DOMAIN files |->
        LET file == files[i]
            days_ago == f[file].days
            target_category == DateTargetCategory(days_ago)
        IN  PlanItem(file, Join(Join(base_path, target_category), PathName(file)),
                     target_category, <<"Modified: ", Str(days_ago), " days ago">>)]

\* the suffixes whose files _organize_by_content opens
TextSuffixes ==
    { <<".","t","x","t">>, <<".","m","d">>, <<".","p","y">>, <<".","j","s">>,
      <<".","h","t","m","l">>, <<".","c","s","s">> }

InvoiceWords == { <<"i","n","v","o","i","c","e">>, <<"b","i","l","l">>,
                  <<"r","e","c","e","i","p","t">> }
ResumeWords == { <<"r","e","s","u","m","e">>, <<"c","v">>,
                 <<"c","u","r","r","i","c","u","l","u","m">> }
SensitiveWords == { <<"p","a","s","s","w","o","r","d">>, <<"s","e","c","r","e","t">>,
                    <<"k","e","y">> }

\* f.read(1024).lower()
ReadHead(text) ==
    Lower(SubSeq(text, 1, IF Len(text) < 1024 THEN Len(text) ELSE 1024))

\* whether _organize_by_content opens the file
Opened(file) == Lower(Suffix(PathName(file))) \in TextSuffixes


\* a faulty variant of the keyword chain that tests the resume words
\* before the invoice words
ContentVerdictResumeFirst(f, file, unreadable) ==
    LET content == ReadHead(f[file].text)
        AnyOf(words) == \E w \in words : Contains(content, w)
    IN  IF ~Opened(file) \/ file \in unreadable
        THEN <<Others, "Content analysis">>
        ELSE IF AnyOf(ResumeWords) THEN <<Resumes, "Contains resume-related content">>
        ELSE IF AnyOf(InvoiceWords) THEN <<Invoices, "Contains invoice-related content">>
        ELSE IF AnyOf(SensitiveWords) THEN <<Sensitive, "Contains sensitive content">>
        ELSE <<Others, "Content analysis">>

\* the if/elif chain over the keyword groups; unreadable: the files whose
\* open() or read() raises
ContentVerdict(f, file, unreadable) ==
    LET content == ReadHead(f[file].text)
        AnyOf(words) == \E w \in words : Contains(content, w)
    IN  IF ~Opened(file) \/ file \in unreadable
        THEN <<Others, "Content analysis">>
        ELSE IF AnyOf(InvoiceWords) THEN <<Invoices, "Contains invoice-related content">>
        ELSE IF AnyOf(ResumeWords) THEN <<Resumes, "Contains resume-related content">>
        ELSE IF AnyOf(SensitiveWords) THEN <<Sensitive, "Contains sensitive content">>
        ELSE <<Others, "Content analysis">>

_organize_by_content(f, files, base_path, unreadable) ==
    [i \in DOMAIN files |->
        LET file == files[i]
            v == ContentVerdict(f, file, unreadable)
        IN  PlanItem(file, Join(Join(base_path, v[1]), PathName(file)),
                     v[1], <<v[2], <<>> >>)]

----------------------------------------------------------------------------
(* _apply_custom_rules and _evaluate_rule_condition                        *)

RECURSIVE Split(_, _)
\* str.split(sep)
Split(s, sep) ==
    LET i == Find(s, sep)
    IN  IF i = 0 THEN <<s>>
        ELSE <<SubSeq(s, 1, i - 1)>> \o Split(SubSeq(s, i + Len(sep), Len(s)), sep)

IsSpace(c) == c \in {" ", "\t", "\n"}

RECURSIVE SplitWs(_)
\* str.split(): the runs of characters between white space
SplitWs(s) ==
    IF Len(s) = 0 THEN << >>
    ELSE IF IsSpace(s[1]) THEN SplitWs(Tail(s))
    ELSE LET Stop(i) == i > Len(s) \/ IsSpace(s[i])
             e == CHOOSE i \in 2..(Len(s) + 1) : Stop(i) /\ \A j \in 2..(i - 1) : ~Stop(j)
         IN  <<SubSeq(s, 1, e - 1)>> \o SplitWs(SubSeq(s, e, Len(s)))

RECURSIVE StripWs(_)
\* str.strip()
StripWs(s) ==
    IF Len(s) > 0 /\ IsSpace(s[1]) THEN StripWs(Tail(s))
    ELSE IF Len(s) > 0 /\ IsSpace(s[Len(s)]) THEN StripWs(SubSeq(s, 1, Len(s) - 1))
    ELSE s

KwExtension == <<"e","x","t","e","n","s","i","o","n"," ","=","=">>
KwSize == <<"s","i","z","e"," ",">">>
KwFilename == <<"f","i","l","e","n","a","m","e","_","c","o","n","t","a","i","n","s">>
KwFilenameCall == KwFilename \o <<"(">>
KwModified == <<"m","o","d","i","f","i","e","d","_","d","a","y","s","_","a","g","o"," ",">">>

\* a faulty variant of _evaluate_rule_condition whose size test is >=
_evaluate_rule_conditionAtLeast(f, item, condition) ==
    LET file == item.file
        file_ext == FileExt(PathName(file))
        file_size == f[file].size
        days_ago == f[file].days
    IN  IF ~Exists(f, file) THEN FALSE
        ELSE IF Contains(condition, KwExtension)
           /\ Contains(condition, <<"'">> \o file_ext \o <<"'">>)
        THEN IF Contains(condition, KwSize)
             THEN LET toks == SplitWs(Split(condition, KwSize)[2])
                  IN  IF Len(toks) = 0 \/ ~IntParses(toks[1]) THEN FALSE
                      ELSE file_size >= IntValue(toks[1])
             ELSE TRUE
        ELSE IF Contains(condition, KwFilename)
        THEN LET parts == Tail(Split(condition, KwFilenameCall))
                 keywords == [i \in DOMAIN parts |->
                                 Split(Strip(parts[i], "'"), <<")">>)[1]]
             IN  \E i \in DOMAIN keywords :
                    Contains(Lower(PathName(file)), Lower(keywords[i]))
        ELSE IF Contains(condition, KwModified)
        THEN LET parts == Split(condition, <<">">>)
                 lim == StripWs(parts[2])
             IN  IF ~IntParses(lim) THEN FALSE ELSE days_ago > IntValue(lim)
        ELSE FALSE

\* the try body of _evaluate_rule_condition; an exception (IndexError,
\* ValueError) is the except branch and returns False
_evaluate_rule_condition(f, item, condition) ==
    LET file == item.file
        file_ext == FileExt(PathName(file))
        file_size == f[file].size
        days_ago == f[file].days
    IN  IF ~Exists(f, file) THEN FALSE
        ELSE IF Contains(condition, KwExtension)
           /\ Contains(condition, <<"'">> \o file_ext \o <<"'">>)
        THEN IF Contains(condition, KwSize)
             THEN LET toks == SplitWs(Split(condition, KwSize)[2])
                  IN  IF Len(toks) = 0 \/ ~IntParses(toks[1]) THEN FALSE
                      ELSE file_size > IntValue(toks[1])
             ELSE TRUE
        ELSE IF Contains(condition, KwFilename)
        THEN LET parts == Tail(Split(condition, KwFilenameCall))
                 keywords == [i \in DOMAIN parts |->
                                 Split(Strip(parts[i], "'"), <<")">>)[1]]
             IN  \E i \in DOMAIN keywords :
                    Contains(Lower(PathName(file)), Lower(keywords[i]))
        ELSE IF Contains(condition, KwModified)
        THEN LET parts == Split(condition, <<">">>)
                 lim == StripWs(parts[2])
             IN  IF ~IntParses(lim) THEN FALSE ELSE days_ago > IntValue(lim)
        ELSE FALSE

\* the body of the inner loop: one rule applied to one item
ApplyRule(f, item, rule) ==
    IF _evaluate_rule_condition(f, item, rule.condition)
    THEN [item EXCEPT
            !.target = Join(Join(PathParent(item.target), rule.target),
                            PathName(item.target)),
            !.category = rule.target,
            !.reason = <<"Custom rule: ", rule.name>>]
    ELSE item

RECURSIVE ApplyRulesFrom(_, _, _, _)
\* the outer loop from rule k on: the rules in the configuration's order,
\* those the profile names
ApplyRulesFrom(f, plan, enabled_rules, k) ==
    IF k > Len(ConfigRules) THEN plan
    ELSE LET rule == ConfigRules[k]
             next == IF InList(rule.name, enabled_rules)
                     THEN [i \in DOMAIN plan |-> ApplyRule(f, plan[i], rule)]
                     ELSE plan
         IN  ApplyRulesFrom(f, next, enabled_rules, k + 1)


\* a faulty variant of _apply_custom_rules that applies every rule of the
\* configuration, named by the profile or not
_apply_custom_rulesAll(f, plan, enabled_rules) ==
    ApplyRulesFrom(f, plan, [k \in DOMAIN ConfigRules |-> ConfigRules[k].name], 1)

_apply_custom_rules(f, plan, enabled_rules) == ApplyRulesFrom(f, plan, enabled_rules, 1)

----------------------------------------------------------------------------
(* _handle_duplicates                                                      *)


\* a variant of the suffixed name that counts from 1 for the second item
SuffixedNameFromOne(name, counter, ext) ==
    name \o <<"(">> \o Str(counter - 1) \o <<")">> \o ext

\* f"{name}({counter}){ext}"
SuffixedName(name, counter, ext) == name \o <<"(">> \o Str(counter) \o <<")">> \o ext

RECURSIVE HandleDuplicatesFrom(_, _, _)
\* the loop from item i on; seen_names maps a target base name to a counter
HandleDuplicatesFrom(plan, i, seen_names) ==
    IF i > Len(plan) THEN plan
    ELSE
      LET target_path == plan[i].target
          original_name == PathName(target_path)
      IN  IF original_name \in DOMAIN seen_names
          THEN LET name == SplitExt(original_name)[1]
                   ext == SplitExt(original_name)[2]
                   first == seen_names[original_name] + 1
                   Free(c) == SuffixedName(name, c, ext) \notin DOMAIN seen_names
                   last == first + Cardinality(DOMAIN seen_names)
                   counter == CHOOSE c \in first..last :
                                 Free(c) /\ \A b \in first..(c - 1) : ~Free(b)
                   new_name == SuffixedName(name, counter, ext)
               IN  HandleDuplicatesFrom(
                       [plan EXCEPT ![i].target = Join(PathParent(target_path), new_name)],
                       i + 1,
                       [seen_names EXCEPT ![original_name] = counter])
          ELSE HandleDuplicatesFrom(
                   plan, i + 1,
                   [n \in (DOMAIN seen_names) \cup {original_name} |->
                       IF n = original_name THEN 1 ELSE seen_names[n]])


\* a faulty variant of _handle_duplicates that treats every item after the
\* first as a repeat
_handle_duplicatesEvery(plan) ==
    [i \in DOMAIN plan |->
        IF i = 1 THEN plan[i]
        ELSE [plan[i] EXCEPT !.target =
                PathParent(plan[i].target)
                    \o <<SuffixedName(SplitExt(PathName(plan[i].target))[1], i,
                                      SplitExt(PathName(plan[i].target))[2])>>]]

_handle_duplicates(plan) == HandleDuplicatesFrom(plan, 1, << >>)

----------------------------------------------------------------------------
(* _execute_plan: Path.mkdir(parents=True, exist_ok=True), shutil.move     *)

\* the longest prefix of p that exists (the root <<>> always does)
DeepestExisting(f, p) ==
    LET n == CHOOSE k \in 0..Len(p) :
                /\ Exists(f, SubSeq(p, 1, k))
                /\ \A j \in (k + 1)..Len(p) : ~Exists(f, SubSeq(p, 1, j))
    IN  SubSeq(p, 1, n)

\* mkdir(parents=True, exist_ok=True) raises (FileExistsError,
\* NotADirectoryError) exactly when p or its nearest existing ancestor is
\* not a directory
MkdirRaises(f, p) == ~IsDir(f, DeepestExisting(f, p))

\* the filesystem after a mkdir that does not raise
MkdirResult(f, p) ==
    [q \in (DOMAIN f) \cup {SubSeq(p, 1, k) : k \in 0..Len(p)} |->
        IF q \in DOMAIN f THEN f[q] ELSE DirNode]

\* shutil.move: where the source ends up.  A destination that is a
\* directory receives the source under its own name.
RealDst(f, src, dst) == IF IsDir(f, dst) THEN Join(dst, PathName(src)) ELSE dst

\* shutil.move raises when the source is gone, when the destination is a
\* directory that already holds an entry of that name, or when the
\* directory it should land in does not exist
MoveRaises(f, src, dst) ==
    \/ ~IsFile(f, src)
    \/ IsDir(f, dst) /\ Exists(f, Join(dst, PathName(src)))
    \/ ~IsDir(f, PathParent(RealDst(f, src, dst)))


\* a faulty variant of the move that leaves the source where it was
MoveResultCopy(f, src, dst) ==
    [q \in (DOMAIN f) \cup {IF IsDir(f, dst) THEN Join(dst, PathName(src)) ELSE dst} |->
        IF q = (IF IsDir(f, dst) THEN Join(dst, PathName(src)) ELSE dst)
        THEN f[src] ELSE f[q]]

\* the filesystem after a shutil.move that does not raise: os.rename
\* replaces a file that is already at the destination
MoveResult(f, src, dst) ==
    LET real_dst == RealDst(f, src, dst)
    IN  [q \in ((DOMAIN f) \ {src}) \cup {real_dst} |->
            IF q = real_dst THEN f[src] ELSE f[q]]

\* the body of the loop of _execute_plan for one item, on the state
\* st = [fs, moved, errors]; failing: the items whose move raises for a
\* reason outside the model (permissions, a lock, a full disk)
ExecuteItem(st, item, failing) ==
    IF MkdirRaises(st.fs, PathParent(item.target))
    THEN [st EXCEPT !.errors = Append(@, <<"Error moving ", PathName(item.file), "mkdir">>)]
    ELSE LET made == MkdirResult(st.fs, PathParent(item.target))
         IN  IF item.file \in failing \/ MoveRaises(made, item.source, item.target)
             THEN [st EXCEPT !.fs = made,
                      !.errors = Append(@, <<"Error moving ", PathName(item.file), "move">>)]
             ELSE [fs |-> MoveResult(made, item.source, item.target),
                   moved |-> Append(st.moved,
                                [file |-> PathName(item.file), from |-> item.source,
                                 to |-> item.target, category |-> item.category,
                                 reason |-> item.reason]),
                   errors |-> st.errors]

RECURSIVE ExecuteFrom(_, _, _, _)
ExecuteFrom(st, plan, i, failing) ==
    IF i > Len(plan) THEN st
    ELSE ExecuteFrom(ExecuteItem(st, plan[i], failing), plan, i + 1, failing)

\* _execute_plan: the filesystem it leaves and the results it returns
_execute_plan(f, plan, failing) ==
    ExecuteFrom([fs |-> f, moved |-> << >>, errors |-> << >>], plan, 1, failing)

----------------------------------------------------------------------------
(* organize_folder, _log_operation, undo_last_operation                    *)

\* operation_history.json before anything was logged
NoFile == [exists |-> FALSE, records |-> << >>]

\* {"moved": [], "errors": [], "duplicates": []}
EmptyResults == [moved |-> << >>, errors |-> << >>, duplicates |-> << >>]

ValidModes == {"type", "size", "date", "content"}

\* a faulty variant of the dispatch on mode whose plan lists the files in
\* the reverse of the scan order
ClassifierPlanReversed(f, files, folder_path, mode, enabled_categories, unreadable) ==
    LET reversed == [i \in DOMAIN files |-> files[Len(files) + 1 - i]]
    IN  IF mode = "type"
        THEN _organize_by_type(f, reversed, folder_path, enabled_categories)
        ELSE IF mode = "size" THEN _organize_by_size(f, reversed, folder_path)
        ELSE IF mode = "date" THEN _organize_by_date(f, reversed, folder_path)
        ELSE _organize_by_content(f, reversed, folder_path, unreadable)

\* the dispatch on mode
ClassifierPlan(f, files, folder_path, mode, enabled_categories, unreadable) ==
    IF mode = "type" THEN _organize_by_type(f, files, folder_path, enabled_categories)
    ELSE IF mode = "size" THEN _organize_by_size(f, files, folder_path)
    ELSE IF mode = "date" THEN _organize_by_date(f, files, folder_path)
    ELSE _organize_by_content(f, files, folder_path, unreadable)


\* a faulty variant of Without in which nothing is ever removed
WithoutNothing(f, gone) == f

RECURSIVE Without(_, _)
\* the filesystem after the files of a set have been removed by others
Without(f, gone) ==
    IF gone = {} THEN f
    ELSE LET p == CHOOSE q \in gone : TRUE
         IN  Without(Unbind(f, p), gone \ {p})

\* the plan organize_folder hands to the executor; gone: the files removed
\* by others after the classifier has run, whose stat() raises in
\* _evaluate_rule_condition
ResolvedPlan(f, files, folder_path, mode, profile, unreadable, gone) ==
    LET profile_config == ProfileConfig(profile)
        plan == ClassifierPlan(f, files, folder_path, mode,
                               profile_config.enabled_categories, unreadable)
    IN  _handle_duplicates(_apply_custom_rules(Without(f, gone), plan,
                                               profile_config.rules))

\* a faulty variant of SetupError that lets any mode through to the last
\* branch of the dispatch
SetupErrorNoMode(f, folder_path, mode) ==
    IF ~Exists(f, folder_path) THEN "FileNotFoundError"
    ELSE IF ~IsDir(f, folder_path) THEN "NotADirectoryError"
    ELSE ""

\* the exception organize_folder raises before it has a plan ("" if none)
SetupError(f, folder_path, mode) ==
    IF ~Exists(f, folder_path) THEN "FileNotFoundError"
    ELSE IF ~IsDir(f, folder_path) THEN "NotADirectoryError"
    ELSE IF mode \notin ValidModes THEN "ValueError"
    ELSE ""

\* a faulty variant of Executes that ignores dry_run
ExecutesAlways(dry_run) == TRUE

\* `if not dry_run:` -- whether the plan is executed and logged
Executes(dry_run) == ~dry_run

\* the record _log_operation builds
_log_operation(now, folder_path, mode, profile, results) ==
    [timestamp |-> now, folder |-> folder_path, mode |-> mode, profile |-> profile,
     moved_files |-> results.moved, errors |-> results.errors]

\* a faulty variant of Dumped that writes the newest record only
DumpedLast(history) == [exists |-> TRUE, records |-> <<history[Len(history)]>>]

\* what json.dump writes to operation_history.json: the whole list
Dumped(history) == [exists |-> TRUE, records |-> history]

\* the outcome of a call: the exception raised ("" if none), the
\* filesystem, the results returned, the instance's history and the
\* persisted history
Outcome(raised, f, results, history, pers, plan, displayed) ==
    [raised |-> raised, fs |-> f, results |-> results, history |-> history,
     persisted |-> pers, plan |-> plan, displayed |-> displayed]


\* a faulty variant of _display_plan that prints no row
_display_planNothing(plan) == << >>

\* the rows _display_plan prints: file name, category, reason
_display_plan(plan) ==
    [i \in DOMAIN plan |->
        <<PathName(plan[i].source), plan[i].category, plan[i].reason>>]

\* lines 113-114 and 119: the results of the executed plan are logged,
\* the grown history is dumped, the results are returned
ExecutedOutcome(plan, done, hist, now, folder_path, mode, profile) ==
    Outcome("", done.fs,
            [moved |-> done.moved, errors |-> done.errors, duplicates |-> << >>],
            Append(hist, _log_operation(now, folder_path, mode, profile, done)),
            Dumped(Append(hist, _log_operation(now, folder_path, mode, profile, done))),
            plan, << >>)

\* lines 109-119: what organize_folder does with the plan it has built
PlanOutcome(plan, f, hist, pers, now, folder_path, mode, profile, dry_run, failing) ==
    IF Executes(dry_run)
    THEN ExecutedOutcome(plan, _execute_plan(f, plan, failing),
                         hist, now, folder_path, mode, profile)
    ELSE Outcome("", f, EmptyResults, hist, pers, plan, _display_plan(plan))

\* organize_folder on an instance whose history is hist.  files: the
\* eligible entries in the order iterdir() yields them.
organize_folder(f, hist, pers, now, folder_path, mode, profile, dry_run, files, unreadable, gone, failing) ==
    IF SetupError(f, folder_path, mode) # ""
    THEN Outcome(SetupError(f, folder_path, mode), f, EmptyResults, hist, pers,
                 << >>, << >>)
    ELSE PlanOutcome(ResolvedPlan(f, files, folder_path, mode, profile, unreadable, gone),
                     Without(f, gone), hist, pers, now, folder_path, mode, profile,
                     dry_run, failing)

\* a faulty variant of UndoHistory that forgets every operation
UndoHistoryClear(hist) == << >>

\* a faulty variant of UndoReturns that always reports success
UndoReturnsTrue(hist) == TRUE

\* undo_last_operation: the history it leaves
UndoHistory(hist) == IF hist = << >> THEN hist ELSE SubSeq(hist, 1, Len(hist) - 1)

\* undo_last_operation: the value it returns
UndoReturns(hist) == hist # << >>

\* FileOrganizer.__init__: the history of a new instance
InitialHistory(pers) == << >>

----------------------------------------------------------------------------
(* The state machine.                                                      *)

Folders == { <<Dn>>, <<Dn, NameA>>, <<Mn>> }
Modes == ValidModes \cup {"bogus"}
ProfileNames == {"default", "work", "personal"}

\* the calls of organize_folder the model makes.  A dry run is made in
\* every mode and under every profile; a call that moves files is made in
\* mode type under the profiles of the configuration; a bad mode, a
\* missing folder and a folder that is a file are tried without dry_run.
Requests ==
    {r \in [folder : Folders, mode : Modes, profile : ProfileNames, dry_run : BOOLEAN] :
        /\ r.profile = "default" \/ (r.mode = "type" /\ r.folder = <<Dn>>)
        /\ r.folder = <<Dn>> \/ r.mode = "type"
        /\ r.dry_run => (r.folder = <<Dn>> /\ r.mode # "bogus")
        /\ ~r.dry_run => (r.folder # <<Dn>> \/ r.mode \in {"type", "bogus"})
        /\ ~r.dry_run => r.profile # "personal"}

\* the calls made where the history is what is looked at
PlainRequests ==
    {r \in Requests : r.folder = <<Dn>> /\ r.mode = "type" /\ r.profile = "default"}

\* a directory that may already stand where a file is to be moved
HazardDirs == { <<Dn, Images, NameA>> }

\* call when the last thing that happened was not a call; listing is the
\* order in which iterdir() yielded the files, unreadable the files whose
\* text could not be read, gone the files others removed while the call
\* was between its classifier and its rules, plan the plan
\* organize_folder built (line 107),
\* displayed what _display_plan printed
NoCall == [op |-> "none", folder |-> << >>, mode |-> "", profile |-> "",
           dry_run |-> FALSE, listing |-> << >>, unreadable |-> {}, gone |-> {},
           raised |-> "",
           ok |-> TRUE, results |-> EmptyResults, plan |-> << >>, displayed |-> << >>]

\* the record of a call that ends now
Called(op) == [NoCall EXCEPT !.op = op]

\* no FileChangeHandler has been made
NoMonitor == [made |-> FALSE]

Init ==
    /\ fs = [p \in { << >>, <<Dn>>, <<Dn, NameH>>, <<Dn, NameT>> } |->
                IF Len(p) < 2 THEN DirNode ELSE FileNode(PathName(p), 1, 1, 0, << >>)]
    /\ operation_history = << >>
    /\ persisted = NoFile
    /\ clock = 0
    /\ call = NoCall
    /\ config = FullConfig
    /\ monitor = NoMonitor

\* the files still somewhere that were created under this name
Born(f, name) == {p \in DOMAIN f : f[p].kind = "file" /\ f[p].born = name}

\* a number that tells a new file from the living ones of the same name
FreshId(f, name) ==
    CHOOSE g \in 1..(MaxFiles + 1) :
        /\ \A p \in Born(f, name) : f[p].id # g
        /\ \A h \in 1..(g - 1) : \E p \in Born(f, name) : f[p].id = h

\* the files a user has dropped that are still somewhere
UserFiles(f) == {p \in DOMAIN f : f[p].kind = "file" /\ \E t \in Written \cup Ruled : f[p].born = t.name}

\* a user drops a file into the folder
Drop(t) ==
    /\ Cardinality(UserFiles(fs)) < MaxFiles
    /\ ~Exists(fs, <<Dn, t.name>>)
    /\ fs' = Bind(fs, <<Dn, t.name>>,
                  FileNode(t.name, FreshId(fs, t.name), t.size, t.days, t.text))
    /\ call' = NoCall
    /\ UNCHANGED <<operation_history, persisted, clock, config, monitor>>

\* a user makes a directory below the folder
MakeDir(p) ==
    /\ ~MkdirRaises(fs, p)
    /\ ~Exists(fs, p)
    /\ fs' = MkdirResult(fs, p)
    /\ call' = NoCall
    /\ UNCHANGED <<operation_history, persisted, clock, config, monitor>>


\* the files other programs remove while a call is under way: their
\* temporary files
Fleeting(file) == PathName(file) = NameV

\* whether a call gets as far as executing a plan
MovesFiles(f, folder_path, mode, dry_run) ==
    Executes(dry_run) /\ SetupError(f, folder_path, mode) = ""

\* what a call of organize_folder by instance history hist, recorded as op,
\* does to the folder, the history and its file
OrganizeEffect(op, hist, folder_path, mode, profile, dry_run) ==
    \E files \in (IF IsDir(fs, folder_path) THEN Listings(ScanSet(fs, folder_path))
                  ELSE { << >> }) :
    \E failing \in (IF MovesFiles(fs, folder_path, mode, dry_run)
                    THEN SUBSET {files[i] : i \in DOMAIN files} ELSE { {} }) :
    \E unreadable \in (IF SetupError(fs, folder_path, mode) = "" /\ mode = "content"
                       THEN SUBSET {files[i] : i \in {j \in DOMAIN files : Opened(files[j])}}
                       ELSE { {} }) :
    \E gone \in (IF SetupError(fs, folder_path, mode) = ""
                 THEN SUBSET {files[i] : i \in {j \in DOMAIN files : Fleeting(files[j])}}
                 ELSE { {} }) :
    \E out \in { organize_folder(fs, hist, persisted, clock + 1, folder_path, mode,
                                 profile, dry_run, files, unreadable, gone, failing) } :
            /\ (out.history # hist) => clock < MaxOps
            /\ fs' = out.fs
            /\ operation_history' = out.history
            /\ persisted' = out.persisted
            /\ clock' = IF out.history # hist THEN clock + 1 ELSE clock
            /\ call' = [Called(op) EXCEPT
                            !.folder = folder_path, !.mode = mode, !.profile = profile,
                            !.dry_run = dry_run,
                            !.listing = IF out.raised = "" THEN files ELSE << >>,
                            !.unreadable = unreadable, !.gone = gone,
                            !.raised = out.raised, !.ok = out.raised = "",
                            !.results = out.results,
                            !.plan = out.plan, !.displayed = out.displayed]

\* a call of organize_folder by instance history hist, recorded as op
OrganizeStep(op, hist, folder_path, mode, profile, dry_run) ==
    /\ OrganizeEffect(op, hist, folder_path, mode, profile, dry_run)
    /\ UNCHANGED <<config, monitor>>

\* organize_folder on the live instance (the GUI, the monitor, a script)
Organize(requests) ==
    \E r \in requests :
        OrganizeStep("organize", operation_history, r.folder, r.mode, r.profile, r.dry_run)

\* undo_last_operation on the live instance
Undo ==
    /\ operation_history' = UndoHistory(operation_history)
    /\ call' = [Called("undo") EXCEPT !.ok = UndoReturns(operation_history)]
    /\ UNCHANGED <<fs, persisted, clock, config, monitor>>

\* a new FileOrganizer replaces the live instance (a new process)
NewInstance ==
    /\ operation_history' = InitialHistory(persisted)
    /\ call' = Called("new")
    /\ UNCHANGED <<fs, persisted, clock, config, monitor>>

\* cli main(): a run with --path; validate_path exits on a bad folder,
\* argparse has refused a mode that is not one of its choices.  The run
\* makes a FileOrganizer of its own, which is the live instance from then on.
CliOrganize ==
    \E r \in {q \in Requests : q.mode = "type" /\ q.profile = "default"} :
        IF ~IsDir(fs, r.folder)
        THEN /\ operation_history' = operation_history
             /\ call' = [Called("cli_organize") EXCEPT !.folder = r.folder,
                            !.mode = r.mode, !.profile = r.profile,
                            !.dry_run = r.dry_run, !.raised = "SystemExit", !.ok = FALSE]
             /\ UNCHANGED <<fs, persisted, clock, config, monitor>>
        ELSE OrganizeStep("cli_organize", InitialHistory(persisted), r.folder, r.mode,
                          r.profile, r.dry_run)

\* cli main(): a run with --undo, on a FileOrganizer of its own; ok is
\* whether it reports that the undo completed
CliUndo ==
    LET hist == InitialHistory(persisted)
    IN  /\ operation_history' = UndoHistory(hist)
        /\ call' = [Called("cli_undo") EXCEPT !.ok = UndoReturns(hist)]
        /\ UNCHANGED <<fs, persisted, clock, config, monitor>>

\* the calls made where the plan is looked at: dry runs in every mode
\* under every profile
PlanRequests ==
    [folder : {<<Dn>>}, mode : ValidModes, profile : ProfileNames, dry_run : {TRUE}]

\* a folder with a sub-directory, and an instance that has loaded any of
\* the configurations
InitPlan ==
    /\ fs = [p \in { << >>, <<Dn>>, <<Dn, NameH>>, <<Dn, NameT>>, <<Dn, Others>> } |->
                IF Len(p) < 2 \/ PathName(p) = Others
                THEN DirNode ELSE FileNode(PathName(p), 1, 1, 0, << >>)]
    /\ operation_history = << >>
    /\ persisted = NoFile
    /\ clock = 0
    /\ call = NoCall
    /\ config \in Configs
    /\ monitor = NoMonitor

\* the plans: files are written into the folder and the plan is asked for
NextPlan ==
    \/ \E t \in Written : Drop(t)
    \/ Organize(PlanRequests)

\* the engine: a folder that fills up and is organised by one instance
Next ==
    \/ \E t \in Dropped : Drop(t)
    \/ \E p \in HazardDirs : MakeDir(p)
    \/ Organize(Requests)

\* the history: instances that come and go, organise and undo
NextHistory ==
    \/ \E t \in Dropped : Drop(t)
    \/ Organize(PlainRequests)
    \/ Undo
    \/ NewInstance
    \/ CliOrganize
    \/ CliUndo

Spec == Init /\ [][Next]_vars

SpecHistory == Init /\ [][NextHistory]_vars

SpecPlan == InitPlan /\ [][NextPlan]_vars

\* the calls made where rules are tried: dry runs in two modes, under a
\* profile that names the rules and under one that names none
RuleRequests ==
    [folder : {<<Dn>>}, mode : {"type", "size"}, profile : {"work", "default"},
     dry_run : {TRUE}]

\* an instance that has loaded a configuration with one of the conditions
InitRules ==
    /\ fs = [p \in { << >>, <<Dn>> } |-> DirNode]
    /\ operation_history = << >>
    /\ persisted = NoFile
    /\ clock = 0
    /\ call = NoCall
    /\ config \in RuleConfigs
    /\ monitor = NoMonitor

\* the rules: files are written into the folder and the plan is asked for
NextRules ==
    \/ \E t \in Ruled : Drop(t)
    \/ Organize(RuleRequests)

SpecRules == InitRules /\ [][NextRules]_vars

\* the longest plan handed to _handle_duplicates
MaxPlan == 4

\* the base names of the targets: a name and the names its suffixed forms
\* would have
PlanNames ==
    { <<"a",".","t","x","t">>, <<"a","(","2",")",".","t","x","t">>,
      <<"a","(","3",")",".","t","x","t">> }

\* the plans handed to _handle_duplicates: up to MaxPlan items for files of
\* several folders, each with one of the names and one of two categories
PlanInputs ==
    UNION {[1..n -> PlanNames \X {Images, Documents}] : n \in 1..MaxPlan}

\* the plan of items with the given target names and categories; the i-th
\* file is m/<i>/<name>
PlanOf(input) ==
    [i \in DOMAIN input |->
        PlanItem(<<Mn, Str(i), input[i][1]>>, <<Dn, input[i][2], input[i][1]>>,
                 input[i][2], <<"File type: ", <<"t","x","t">> >>)]

\* a plan is about to be handed to _handle_duplicates
InitDuplicates ==
    /\ fs = [p \in { << >>, <<Dn>> } |-> DirNode]
    /\ operation_history = << >>
    /\ persisted = NoFile
    /\ clock = 0
    /\ call \in {[Called("plan") EXCEPT !.plan = PlanOf(input)] : input \in PlanInputs}
    /\ config = FullConfig
    /\ monitor = NoMonitor

\* _handle_duplicates returns
HandleDuplicates ==
    /\ call.op = "plan"
    /\ call' = [call EXCEPT !.op = "duplicates", !.plan = _handle_duplicates(call.plan)]
    /\ UNCHANGED <<fs, operation_history, persisted, clock, config, monitor>>

NextDuplicates == HandleDuplicates

SpecDuplicates == InitDuplicates /\ [][NextDuplicates]_vars

----------------------------------------------------------------------------
(* The file monitor: one FileChangeHandler fed by one Observer.  The       *)
(* Observer's thread takes the events of the watched tree from its queue   *)
(* and runs on_created / on_moved; _schedule_organization starts threads   *)
(* that run _process_pending_files.                                        *)

\* the threads _schedule_organization may create in a run of the model
MaxThreads == 3

Threads == 1..MaxThreads

\* who holds processing_lock: 0 nobody, a thread, or the Observer's thread
ObserverId == MaxThreads + 1

\* a Thread object not yet made
NoThread == [pc |-> "unborn", files_to_process |-> {}, file_path |-> << >>]

\* FileChangeHandler.__init__, with the Observer's queue empty and its
\* thread between two events
NewMonitor ==
    [made |-> TRUE, events |-> << >>, observer |-> "idle", file_path |-> << >>,
     pending_files |-> {}, processing_lock |-> 0, organization_thread |-> 0,
     threads |-> [t \in Threads |-> NoThread]]

\* a faulty variant of Thread.is_alive() that never sees a running thread
is_aliveNever(m, t) == FALSE

\* Thread.is_alive(): from start() until the thread's function has returned
\* and the thread has ended
is_alive(m, t) ==
    m.threads[t].pc \in {"sleep", "locked", "loop", "organizing", "returned"}

\* a file-system event as the Observer queues it
Event(kind, is_directory, src_path, dest_path) ==
    [kind |-> kind, is_directory |-> is_directory,
     src_path |-> src_path, dest_path |-> dest_path]

InitMonitor ==
    /\ fs = [p \in { << >>, <<Dn>> } |-> DirNode]
    /\ operation_history = << >>
    /\ persisted = NoFile
    /\ clock = 0
    /\ call = NoCall
    /\ config = FullConfig
    /\ monitor = NewMonitor

\* a step of the monitor that is no call of the engine
MonitorStep(m) ==
    /\ monitor' = m
    /\ call' = NoCall
    /\ UNCHANGED <<fs, operation_history, persisted, clock, config>>

\* a file is created in the watched folder
FileCreated(t) ==
    /\ Cardinality(UserFiles(fs)) < MaxFiles
    /\ ~Exists(fs, <<Dn, t.name>>)
    /\ fs' = Bind(fs, <<Dn, t.name>>,
                  FileNode(t.name, FreshId(fs, t.name), t.size, t.days, t.text))
    /\ monitor' = [monitor EXCEPT !.events =
                      Append(@, Event("created", FALSE, <<Dn, t.name>>, << >>))]
    /\ call' = NoCall
    /\ UNCHANGED <<operation_history, persisted, clock, config>>

\* a directory is created in the watched folder
DirCreated(p) ==
    /\ ~Exists(fs, p)
    /\ IsDir(fs, PathParent(p))
    /\ fs' = Bind(fs, p, DirNode)
    /\ monitor' = [monitor EXCEPT !.events = Append(@, Event("created", TRUE, p, << >>))]
    /\ call' = NoCall
    /\ UNCHANGED <<operation_history, persisted, clock, config>>

\* the Observer's thread takes a created event: on_created
on_created ==
    /\ monitor.observer = "idle"
    /\ monitor.events # << >>
    /\ Head(monitor.events).kind = "created"
    /\ LET event == Head(monitor.events)
           m == [monitor EXCEPT !.events = Tail(@)]
       IN  MonitorStep(IF ~event.is_directory
                       THEN [m EXCEPT !.observer = "schedule", !.file_path = event.src_path]
                       ELSE m)

\* the Observer's thread takes a moved event: on_moved
on_moved ==
    /\ monitor.observer = "idle"
    /\ monitor.events # << >>
    /\ Head(monitor.events).kind = "moved"
    /\ LET event == Head(monitor.events)
           m == [monitor EXCEPT !.events = Tail(@)]
       IN  MonitorStep(IF ~event.is_directory
                       THEN [m EXCEPT !.observer = "schedule", !.file_path = event.dest_path]
                       ELSE m)

\* _schedule_organization: `with self.processing_lock:` is entered
ScheduleLock ==
    /\ monitor.observer = "schedule"
    /\ monitor.processing_lock = 0
    /\ MonitorStep([monitor EXCEPT !.observer = "add", !.processing_lock = ObserverId])

\* _schedule_organization: pending_files.add(file_path), the lock released
ScheduleAdd ==
    /\ monitor.observer = "add"
    /\ MonitorStep([monitor EXCEPT !.observer = "check",
                                   !.pending_files = @ \cup {monitor.file_path},
                                   !.processing_lock = 0])

\* _schedule_organization: the test of line 44 and, when it holds, the new
\* Thread object of line 45
ScheduleCheck ==
    /\ monitor.observer = "check"
    /\ IF monitor.organization_thread = 0
          \/ ~is_alive(monitor, monitor.organization_thread)
       THEN \E t \in Threads :
               /\ monitor.threads[t].pc = "unborn"
               /\ \A u \in 1..(t - 1) : monitor.threads[u].pc # "unborn"
               /\ MonitorStep([monitor EXCEPT !.observer = "start",
                                              !.organization_thread = t,
                                              !.threads[t].pc = "created"])
       ELSE MonitorStep([monitor EXCEPT !.observer = "idle", !.file_path = << >>])

\* _schedule_organization: organization_thread.start()
ScheduleStart ==
    /\ monitor.observer = "start"
    /\ MonitorStep([monitor EXCEPT !.observer = "idle", !.file_path = << >>,
                                   !.threads[monitor.organization_thread].pc = "sleep"])

\* _process_pending_files: after the sleep, `with self.processing_lock:`
\* is entered
ProcessLock(t) ==
    /\ monitor.threads[t].pc = "sleep"
    /\ monitor.processing_lock = 0
    /\ MonitorStep([monitor EXCEPT !.threads[t].pc = "locked", !.processing_lock = t])

\* _process_pending_files: under the lock, break when nothing is pending,
\* else take what is pending
ProcessTake(t) ==
    /\ monitor.threads[t].pc = "locked"
    /\ MonitorStep(IF monitor.pending_files = {}
                   THEN [monitor EXCEPT !.threads[t].pc = "returned",
                                        !.processing_lock = 0]
                   ELSE [monitor EXCEPT !.threads[t].pc = "loop",
                                        !.threads[t].files_to_process = monitor.pending_files,
                                        !.pending_files = {},
                                        !.processing_lock = 0])

\* _organize_single_file up to the call of the engine: a file that is gone
\* or still growing is skipped
ProcessFile(t) ==
    /\ monitor.threads[t].pc = "loop"
    /\ \E file_path \in monitor.threads[t].files_to_process :
       \E growing \in BOOLEAN :
          LET m == [monitor EXCEPT !.threads[t].files_to_process = @ \ {file_path}]
          IN  MonitorStep(IF ~Exists(fs, file_path) \/ growing
                          THEN m
                          ELSE [m EXCEPT !.threads[t].pc = "organizing",
                                         !.threads[t].file_path = file_path])

\* the moved events the Observer queues for the files a call has moved
RECURSIVE MovedEvents(_)
MovedEvents(moved) ==
    IF moved = << >> THEN << >>
    ELSE <<Event("moved", FALSE, Head(moved).from, Head(moved).to)>>
            \o MovedEvents(Tail(moved))

\* _organize_single_file: the call of organize_folder on the parent
\* directory returns, or raises and is logged
ProcessOrganize(t) ==
    /\ monitor.threads[t].pc = "organizing"
    /\ OrganizeEffect("organize", operation_history,
                      PathParent(monitor.threads[t].file_path), "type", "default", FALSE)
    /\ monitor' = [monitor EXCEPT !.threads[t].pc = "loop",
                                  !.threads[t].file_path = << >>,
                                  !.events = @ \o MovedEvents(call'.results.moved)]
    /\ UNCHANGED config

\* _process_pending_files: the for loop is through, back to the sleep
ProcessAgain(t) ==
    /\ monitor.threads[t].pc = "loop"
    /\ monitor.threads[t].files_to_process = {}
    /\ MonitorStep([monitor EXCEPT !.threads[t].pc = "sleep"])

\* the thread ends after its function has returned
ThreadEnds(t) ==
    /\ monitor.threads[t].pc = "returned"
    /\ MonitorStep([monitor EXCEPT !.threads[t].pc = "dead"])

\* the files that arrive in the watched folder
Arriving == {t \in Dropped : t.name \in {NameA, NameC}}

\* the directories made in the watched folder
ArrivingDirs == { <<Dn, Mn>> }

\* the monitor: files arrive, the Observer's thread schedules them, the
\* processing threads organise their folders
NextMonitor ==
    \/ \E t \in Arriving : FileCreated(t)
    \/ \E p \in ArrivingDirs : DirCreated(p)
    \/ on_created
    \/ on_moved
    \/ ScheduleLock
    \/ ScheduleAdd
    \/ ScheduleCheck
    \/ ScheduleStart
    \/ \E t \in Threads : ProcessLock(t)
    \/ \E t \in Threads : ProcessTake(t)
    \/ \E t \in Threads : ProcessFile(t)
    \/ \E t \in Threads : ProcessOrganize(t)
    \/ \E t \in Threads : ProcessAgain(t)
    \/ \E t \in Threads : ThreadEnds(t)

SpecMonitor == InitMonitor /\ [][NextMonitor]_vars

\* what the Observer's thread does
ObserverRuns ==
    on_created \/ on_moved \/ ScheduleLock \/ ScheduleAdd \/ ScheduleCheck \/ ScheduleStart

\* what a processing thread does outside the call of the engine
ThreadRuns(t) ==
    \/ ProcessLock(t) \/ ProcessTake(t) \/ ProcessFile(t)
    \/ ProcessAgain(t) \/ ThreadEnds(t)

\* the call of organize_folder returns or raises: no thread stays in it
\* for ever
OrganizeReturns(t) == []<>(monitor.threads[t].pc # "organizing")

\* the monitor with its threads scheduled: the Observer's thread and every
\* started thread go on whenever they can; no file has to arrive
SpecMonitorFair ==
    /\ InitMonitor
    /\ [][NextMonitor]_vars
    /\ WF_vars(ObserverRuns)
    /\ \A t \in Threads : WF_vars(ThreadRuns(t)) /\ OrganizeReturns(t)

----------------------------------------------------------------------------
(* Properties.  A step is a call when it leaves a call in `call`; the call *)
(* that ended is then call', the state it started in is the unprimed one.  *)

CallStep == call'.op # "none"

\* a call of organize_folder on the live instance that got as far as
\* executing its plan
ExecStep ==
    CallStep /\ call'.op = "organize" /\ ~call'.dry_run /\ call'.raised = ""

Unchanged == fs' = fs /\ operation_history' = operation_history /\ persisted' = persisted

\* C1: a call of organize_folder with dry_run=True makes no directory,
\* moves no file, appends nothing to the in-memory history and does not
\* rewrite the persisted history.
C1_DryRunChangesNothing ==
    [][(CallStep /\ call'.op = "organize" /\ call'.dry_run) => Unchanged]_vars

\* a dry run has ended in a folder that holds two files a real run would
\* move, while a history file exists
C1_Witness ==
    /\ call.op = "organize" /\ call.dry_run /\ call.raised = ""
    /\ Cardinality(ScanSet(fs, call.folder)) = 2
    /\ persisted.exists

\* the index of file p in a listing
Position(listing, p) == CHOOSE i \in DOMAIN listing : listing[i] = p

\* every item of the plan (one per listed file, in that order) is in
\* exactly one of moved and errors, and each list keeps the plan's order
Accounted(listing, results) ==
    LET moved == results.moved
        errors == results.errors
        names == [i \in DOMAIN listing |-> PathName(listing[i])]
    IN  /\ Len(moved) + Len(errors) = Len(listing)
        /\ \A i \in DOMAIN listing :
              (\E j \in DOMAIN moved : moved[j].from = listing[i])
              # (\E j \in DOMAIN errors : errors[j][2] = names[i])
        /\ \A j, k \in DOMAIN moved :
              j < k => Position(listing, moved[j].from) < Position(listing, moved[k].from)
        /\ \A j, k \in DOMAIN errors :
              j < k => Position(names, errors[j][2]) < Position(names, errors[k][2])

\* every item in moved is the file that was at `from`, now at `to`
MovedArrive ==
    \A j \in DOMAIN call'.results.moved :
        LET m == call'.results.moved[j]
        IN  IsFile(fs', m.to) /\ fs'[m.to] = fs[m.from]

\* the part of C2 that is about the two lists alone
ExecutionAccounts == [][ExecStep => Accounted(call'.listing, call'.results)]_vars

\* C2: when _execute_plan has run, every plan item is in exactly one of
\* moved and errors (their lengths add up to the plan's), items were
\* attempted in plan order, a failure did not keep later items from being
\* attempted, and every item in moved is at its destination.
C2_PartialFailure ==
    [][ExecStep => (Accounted(call'.listing, call'.results) /\ MovedArrive)]_vars

\* C3: a call with dry_run False on a folder that does not exist, on a
\* path that is not a directory or with an unrecognised mode raises, and
\* has by then made no directory, moved no file and logged nothing.
C3_SetupErrorsChangeNothing ==
    [][(/\ CallStep /\ call'.op = "organize" /\ ~call'.dry_run
        /\ \/ ~Exists(fs, call'.folder)
           \/ ~IsDir(fs, call'.folder)
           \/ call'.mode \notin ValidModes)
       => (call'.raised # "" /\ call'.results = EmptyResults /\ Unchanged)]_vars

\* a call with an unrecognised mode has raised in a folder that holds files
\* it could have moved
C3_Witness ==
    /\ call.op = "organize" /\ ~call.dry_run /\ call.raised = "ValueError"
    /\ ScanSet(fs, call.folder) # {}

\* the categories (by index) that the profile enables and that list ext
EnabledFor(ext, profile) ==
    {k \in DOMAIN ConfigCategories :
        /\ InList(ConfigCategories[k].name, ProfileConfig(profile).enabled_categories)
        /\ ext \in ConfigCategories[k].extensions}

\* type mode's verdict on the file called name, as item (a plan item or a
\* moved entry) has it, where labels[k] is what category k gives as the
\* item's category
TypeVerdict(name, item, profile, labels) ==
    LET ext == FileExt(name)
    IN  IF EnabledFor(ext, profile) # {}
        THEN /\ \E k \in EnabledFor(ext, profile) : item.category = labels[k]
             /\ item.reason = <<"File type: ", ext>>
        ELSE /\ item.category = Others
             /\ item.reason = <<"Uncategorized file type", <<>> >>

\* the file of moved entry m is at `to`, or (only if into) inside `to`
\* under its own name when a directory stood there before the call
Lands(m, into) ==
    LET at == IF into /\ IsDir(fs, m.to) THEN Join(m.to, m.file) ELSE m.to
    IN  IsFile(fs', at) /\ fs'[at] = fs[m.from]

\* a call in type mode that executed: the classifier's plan obeys
\* TypeVerdict, and so do the moved entries when the profile has no rules;
\* with no rules and no failures there is one moved entry per file, for
\* <dir>/<category>/<name>; the file is at that path, or (only if into)
\* inside it when a directory stood there
TypeModeCall(labels, into) ==
    LET profile == call'.profile
        plan == _organize_by_type(fs, call'.listing, call'.folder,
                                  ProfileConfig(profile).enabled_categories)
        moved == call'.results.moved
    IN  /\ \A i \in DOMAIN plan :
              TypeVerdict(PathName(plan[i].file), plan[i], profile, labels)
        /\ ProfileConfig(profile).rules = << >> =>
              \A j \in DOMAIN moved : TypeVerdict(moved[j].file, moved[j], profile, labels)
        /\ (ProfileConfig(profile).rules = << >> /\ call'.results.errors = << >>) =>
              /\ Len(moved) = Len(call'.listing)
              /\ \A i \in DOMAIN call'.listing :
                    \E j \in DOMAIN moved : moved[j].from = call'.listing[i]
              /\ \A j \in DOMAIN moved :
                    /\ moved[j].to = Join(Join(call'.folder, moved[j].category),
                                          moved[j].file)
                    /\ Lands(moved[j], into)

\* what each category of the configuration is called, and its folder
CategoryNames == [k \in DOMAIN ConfigCategories |-> ConfigCategories[k].name]
CategoryFolderNames == [k \in DOMAIN ConfigCategories |-> ConfigCategories[k].folder_name]

\* C4 as stated: in type mode a file whose lowercased extension is listed
\* by a category the profile enables gets that category's name as its
\* category, with reason "File type: <ext>"; a file of any other extension
\* gets "Others" with reason "Uncategorized file type"; with no rules and
\* no failures each file is moved to <dir>/<category>/<name>, with one
\* moved entry per file and no errors.
C4_TypeModeByName ==
    [][(ExecStep /\ call'.mode = "type") => TypeModeCall(CategoryNames, FALSE)]_vars

\* C4 as the code has it: the category is the folder_name of an enabled
\* category that lists the extension, and a file whose destination is an
\* existing directory is moved into that directory.
C4_TypeModeByFolderName ==
    [][(ExecStep /\ call'.mode = "type")
          => TypeModeCall(CategoryFolderNames, TRUE)]_vars

\* a type-mode call under a profile without rules has moved two files with
\* no error, one to the folder of an enabled category and one to Others
C4_Witness ==
    /\ call.op = "organize" /\ ~call.dry_run /\ call.raised = "" /\ call.mode = "type"
    /\ ProfileConfig(call.profile).rules = << >>
    /\ call.results.errors = << >>
    /\ Len(call.results.moved) = 2
    /\ \E j \in 1..2 : call.results.moved[j].category = Images
    /\ \E j \in 1..2 : call.results.moved[j].category = Others
    /\ \A j \in 1..2 : IsFile(fs, call.results.moved[j].to)

\* C5: a plan item whose target is occupied by a file that was there
\* before the call ends in errors, not in moved; the file at the target is
\* left as it was and the item's file stays where it was.
C5_OccupiedTargetFails ==
    [][ExecStep =>
          LET plan == ResolvedPlan(fs, call'.listing, call'.folder, call'.mode,
                                   call'.profile, {}, {})
          IN  \A i \in DOMAIN plan :
                  IsFile(fs, plan[i].target) =>
                      /\ \E j \in DOMAIN call'.results.errors :
                            call'.results.errors[j][2] = PathName(plan[i].file)
                      /\ \A j \in DOMAIN call'.results.moved :
                            call'.results.moved[j].from # plan[i].source
                      /\ IsFile(fs', plan[i].target)
                      /\ fs'[plan[i].target] = fs[plan[i].target]
                      /\ IsFile(fs', plan[i].source)
                      /\ fs'[plan[i].source] = fs[plan[i].source]]_vars

\* the last element of a non-empty sequence, and the rest
Last(s) == s[Len(s)]
Front(s) == SubSeq(s, 1, Len(s) - 1)

\* C6: every call without dry_run that reaches execution appends exactly
\* one record to the history of the instance that ran it (also when no
\* file was moved); the record's moved_files and errors are the lists the
\* call returned; right after the call the persisted history is the whole
\* in-memory history.
C6_OneRecordPerCall ==
    [][(/\ CallStep /\ call'.op \in {"organize", "cli_organize"}
        /\ ~call'.dry_run /\ call'.raised = "")
       => /\ operation_history' # << >>
          /\ Front(operation_history') =
                (IF call'.op = "organize" THEN operation_history ELSE << >>)
          /\ Last(operation_history').moved_files = call'.results.moved
          /\ Last(operation_history').errors = call'.results.errors
          /\ persisted'.exists
          /\ persisted'.records = operation_history']_vars

\* a call that moved nothing has ended on an instance that had logged an
\* operation before, and both records are in memory and in the file
C6_Witness ==
    /\ call.op = "organize" /\ ~call.dry_run /\ call.raised = ""
    /\ call.results.moved = << >>
    /\ Len(operation_history) = 2
    /\ persisted.records = operation_history

\* s is t with some elements left out
RECURSIVE IsSubsequence(_, _)
IsSubsequence(s, t) ==
    IF s = << >> THEN TRUE
    ELSE IF t = << >> THEN FALSE
    ELSE IF Head(s) = Head(t) THEN IsSubsequence(Tail(s), Tail(t))
    ELSE IsSubsequence(s, Tail(t))

\* C7: the persisted history is append-only: whatever is called next
\* (organize_folder, undo_last_operation, on this or on a new instance),
\* every record that was persisted is still persisted, unchanged and in
\* the same relative order.
C7_PersistedAppendOnly ==
    [][persisted.exists =>
          /\ persisted'.exists
          /\ IsSubsequence(persisted.records, persisted'.records)]_vars

\* C8: undo_last_operation on an instance whose history is empty returns
\* False, raises nothing and changes neither the history, the persisted
\* history nor the filesystem.
C8_UndoOnEmpty ==
    [][(CallStep /\ call'.op = "undo" /\ operation_history = << >>)
       => (~call'.ok /\ call'.raised = "" /\ Unchanged)]_vars

\* an undo has returned False on an instance without history while the
\* history file holds a record
C8_Witness ==
    /\ call.op = "undo" /\ ~call.ok
    /\ operation_history = << >>
    /\ persisted.exists

\* C9: undo_last_operation on an instance whose history is not empty
\* returns True and removes exactly the last record; so n undos after n
\* logged operations all return True and the next returns False.
C9_UndoPopsLast ==
    [][(CallStep /\ call'.op = "undo" /\ operation_history # << >>)
       => (call'.ok /\ operation_history' = Front(operation_history))]_vars

\* an undo has returned True and left the first of two records
C9_Witness ==
    /\ call.op = "undo" /\ call.ok
    /\ Len(operation_history) = 1
    /\ clock = 2

\* C10: a run of the command line with --undo right after a run that
\* organised a folder without --dry-run finds that operation and reports
\* that the undo completed.
C10_CliUndoFindsRecord ==
    [][(/\ CallStep /\ call'.op = "cli_undo"
        /\ call.op = "cli_organize" /\ ~call.dry_run /\ call.raised = "")
       => call'.ok]_vars

\* a call of organize_folder on the live instance that built a plan
PlanStep == CallStep /\ call'.op = "organize" /\ call'.raised = ""

\* the entries of a folder that are regular files whose name starts with
\* neither '.' nor '~'
Eligible(f, folder_path) ==
    {p \in DOMAIN f :
        /\ Len(p) = Len(folder_path) + 1
        /\ SubSeq(p, 1, Len(folder_path)) = folder_path
        /\ f[p].kind = "file"
        /\ p[Len(p)][1] \notin {".", "~"}}

\* C11 as stated: with dry_run=True organize_folder returns the resolved
\* plan as a preview: the result is not empty when the folder holds
\* eligible files.
C11_DryRunReturnsPlan ==
    [][(PlanStep /\ call'.dry_run /\ Eligible(fs, call'.folder) # {})
          => call'.results # EmptyResults]_vars

\* C11 as the code has it: with dry_run=True organize_folder prints the
\* resolved plan, one row per scanned file with its name, category and
\* reason, and returns the empty result.
C11_DryRunDisplaysPlan ==
    [][(PlanStep /\ call'.dry_run)
          => /\ call'.results = EmptyResults
             /\ Len(call'.displayed) = Cardinality(Eligible(fs, call'.folder))
             /\ Len(call'.plan) = Len(call'.displayed)
             /\ \A i \in DOMAIN call'.displayed :
                   /\ call'.displayed[i][1] = PathName(call'.listing[i])
                   /\ call'.displayed[i][2] = call'.plan[i].category
                   /\ call'.displayed[i][3] = call'.plan[i].reason]_vars

\* a dry run has printed two rows and returned the empty result
C11_Witness ==
    /\ call.op = "organize" /\ call.dry_run /\ call.raised = ""
    /\ Len(call.displayed) = 2
    /\ call.results = EmptyResults

\* C12: the plan of a call has exactly one item per eligible entry of the
\* folder (a regular file directly in it whose name starts with neither '.'
\* nor '~'), in the order of the scan and with the scanned path as source:
\* custom rules and collision resolution add, drop, reorder and re-source
\* nothing.
C12_OneItemPerEligibleFile ==
    [][PlanStep
          => /\ Len(call'.plan) = Cardinality(Eligible(fs, call'.folder))
             /\ Len(call'.listing) = Len(call'.plan)
             /\ \A i \in DOMAIN call'.plan :
                   /\ call'.plan[i].source = call'.listing[i]
                   /\ call'.plan[i].source \in Eligible(fs, call'.folder)
             /\ \A p \in Eligible(fs, call'.folder) :
                   Cardinality({i \in DOMAIN call'.plan : call'.plan[i].source = p}) = 1]_vars

\* a plan of two items, one of them re-targeted by a custom rule, for a
\* folder that also holds a sub-directory, a dot file and a tilde file
C12_Witness ==
    /\ call.op = "organize" /\ call.raised = ""
    /\ Len(call.plan) = 2
    /\ \E i \in DOMAIN call.plan : call.plan[i].category = Notes
    /\ {<<Dn, NameH>>, <<Dn, NameT>>, <<Dn, Others>>} \subseteq DOMAIN fs

TypePlanStep ==
    PlanStep /\ call'.mode = "type" /\ ProfileConfig(call'.profile).rules = << >>

\* the least element of a non-empty set of numbers
Least(S) == CHOOSE x \in S : \A y \in S : x <= y

\* the positions, in the categories map, of the categories a profile
\* enables that list the extension of a file name
ListedBy(name, profile) ==
    {k \in DOMAIN ConfigCategories :
        /\ InList(ConfigCategories[k].name, ProfileConfig(profile).enabled_categories)
        /\ FileExt(name) \in ConfigCategories[k].extensions}

\* C15 as stated: type mode walks the enabled categories in the order the
\* profile lists them: of two enabled categories listing a file's
\* extension, the one named first in the profile gives the category.
C15_TypeModeProfileOrder ==
    [][TypePlanStep
          => \A i \in DOMAIN call'.plan :
                LET first == TypeTargetCategoryProfileOrder(
                                 FileExt(PathName(call'.plan[i].source)),
                                 ProfileConfig(call'.profile).enabled_categories)
                IN  call'.plan[i].category = IF first = <<>> THEN Others ELSE first]_vars

\* C15 as the code has it: type mode walks the categories map of the
\* configuration and skips the categories the profile does not enable: of
\* two enabled categories listing a file's extension, the one that comes
\* first in the categories map gives the category.
C15_TypeModeConfigOrder ==
    [][TypePlanStep
          => \A i \in DOMAIN call'.plan :
                LET hits == ListedBy(PathName(call'.plan[i].source), call'.profile)
                IN  call'.plan[i].category =
                        IF hits = {} THEN Others
                        ELSE ConfigCategories[Least(hits)].folder_name]_vars

\* a type-mode plan gives a.jpg the category of the first category of the
\* map although the profile names another category listing jpg first
C15_Witness ==
    /\ call.op = "organize" /\ call.raised = "" /\ call.mode = "type"
    /\ ProfileConfig(call.profile).rules = << >>
    /\ \E i \in DOMAIN call.plan :
          /\ PathName(call.plan[i].source) = NameA
          /\ Cardinality(ListedBy(NameA, call.profile)) = 2
          /\ ProfileConfig(call.profile).enabled_categories[1] = CatDocuments
          /\ call.plan[i].category = Images

\* a call that built a plan in the given mode under a profile without rules
ModePlanStep(mode) ==
    PlanStep /\ call'.mode = mode /\ ProfileConfig(call'.profile).rules = << >>

\* the thresholds of a sequence of categories are declared in ascending
\* order; limits[k] is the threshold of the k-th category
Ascending(limits) ==
    \A j, k \in DOMAIN limits : j < k => limits[j] < limits[k]

\* the positions of the thresholds a value does not exceed
Fits(value, limits) == {k \in DOMAIN limits : value <= limits[k]}

\* the position of the smallest of the thresholds at the positions S
Smallest(S, limits) == CHOOSE k \in S : \A j \in S : limits[k] <= limits[j]

SizeLimits == [k \in DOMAIN ConfigSizeCategories |-> ConfigSizeCategories[k].max_size]

\* C16: with size thresholds declared in ascending order, size mode gives
\* each file the category of the smallest threshold t with size <= t, and
\* "Others" when the size exceeds every threshold; a file of exactly
\* max_size bytes belongs to that threshold's category.
C16_SizeModeSmallestThreshold ==
    [][(ModePlanStep("size") /\ Ascending(SizeLimits))
          => \A i \in DOMAIN call'.plan :
                LET size == fs[call'.plan[i].source].size
                    fits == Fits(size, SizeLimits)
                IN  /\ call'.plan[i].category =
                          IF fits = {} THEN Others
                          ELSE ConfigSizeCategories[Smallest(fits, SizeLimits)].name
                    /\ \A k \in DOMAIN SizeLimits :
                          size = SizeLimits[k]
                             => call'.plan[i].category = ConfigSizeCategories[k].name]_vars

\* a size-mode plan holds a file of exactly the first threshold, given the
\* first category, and a file above every threshold, given "Others"
C16_Witness ==
    /\ call.op = "organize" /\ call.raised = "" /\ call.mode = "size"
    /\ ProfileConfig(call.profile).rules = << >>
    /\ ConfigSizeCategories # << >>
    /\ \E i, j \in DOMAIN call.plan :
          /\ fs[call.plan[i].source].size = SizeLimits[1]
          /\ call.plan[i].category = ConfigSizeCategories[1].name
          /\ Fits(fs[call.plan[j].source].size, SizeLimits) = {}
          /\ call.plan[j].category = Others

DateLimits == [k \in DOMAIN ConfigDateCategories |-> ConfigDateCategories[k].max_days]

\* C17: with date thresholds declared in ascending order, date mode gives
\* each file the category of the first threshold t with days_ago <= t,
\* days_ago being the whole days since the file was modified, and
\* "Old_Files" when days_ago exceeds every threshold; the reason is
\* "Modified: <days_ago> days ago".
C17_DateModeFirstThreshold ==
    [][(ModePlanStep("date") /\ Ascending(DateLimits))
          => \A i \in DOMAIN call'.plan :
                LET days_ago == fs[call'.plan[i].source].days
                    fits == Fits(days_ago, DateLimits)
                IN  /\ call'.plan[i].category =
                          IF fits = {} THEN OldFiles
                          ELSE ConfigDateCategories[Least(fits)].name
                    /\ call'.plan[i].reason =
                          <<"Modified: ", Str(days_ago), " days ago">>]_vars

\* a date-mode plan holds a file modified exactly as many days ago as the
\* first threshold, given the first category with the reason "Modified: 7
\* days ago", and a file older than every threshold, given "Old_Files"
C17_Witness ==
    /\ call.op = "organize" /\ call.raised = "" /\ call.mode = "date"
    /\ ProfileConfig(call.profile).rules = << >>
    /\ ConfigDateCategories # << >>
    /\ \E i, j \in DOMAIN call.plan :
          /\ fs[call.plan[i].source].days = DateLimits[1]
          /\ call.plan[i].category = ConfigDateCategories[1].name
          /\ call.plan[i].reason = <<"Modified: ", <<"7">>, " days ago">>
          /\ Fits(fs[call.plan[j].source].days, DateLimits) = {}
          /\ call.plan[j].category = OldFiles

\* the keyword groups in their priority, with the category each gives
KeywordGroups == <<InvoiceWords, ResumeWords, SensitiveWords>>
KeywordCategories == <<Invoices, Resumes, Sensitive>>

\* the lower-cased first 1024 characters of a text
LowerHead(text) ==
    Lower(SubSeq(text, 1, IF Len(text) < 1024 THEN Len(text) ELSE 1024))

\* the groups of which a keyword occurs in a text
MatchedIn(head) ==
    {g \in DOMAIN KeywordGroups : \E w \in KeywordGroups[g] : Contains(head, w)}

\* the groups of which a keyword occurs in the lower-cased first 1024
\* characters of a text
Matched(text) == UNION {MatchedIn(head) : head \in {LowerHead(text)}}

\* C18: content mode gives a file the category of the first of the groups
\* invoice, resume, sensitive of which a keyword occurs in the lower-cased
\* first 1024 characters; a file whose extension is not on the list, that
\* matches no keyword or whose read fails gets "Others" with the reason
\* "Content analysis"; a failing read raises nothing out of
\* organize_folder.
C18_ContentModePriority ==
    [][(CallStep /\ call'.op = "organize" /\ call'.mode = "content"
          /\ IsDir(fs, call'.folder) /\ ProfileConfig(call'.profile).rules = << >>)
          => /\ call'.raised = ""
             /\ Len(call'.plan) = Cardinality(Eligible(fs, call'.folder))
             /\ \A i \in DOMAIN call'.plan :
                   \E file \in {call'.plan[i].source} :
                   \E matched \in {Matched(fs[file].text)} :
                   LET plain == \/ Lower(Suffix(PathName(file))) \notin TextSuffixes
                                \/ file \in call'.unreadable
                                \/ matched = {}
                   IN  IF plain
                       THEN /\ call'.plan[i].category = Others
                            /\ call'.plan[i].reason[1] = "Content analysis"
                       ELSE /\ call'.plan[i].category = KeywordCategories[Least(matched)]
                            /\ call'.plan[i].reason[1] # "Content analysis"]_vars

\* a content-mode plan gives "Invoices" to a readable file holding an
\* invoice word and a resume word, and "Others" to a file whose read failed
C18_Witness ==
    /\ call.op = "organize" /\ call.raised = "" /\ call.mode = "content"
    /\ ProfileConfig(call.profile).rules = << >>
    /\ \E i, j \in DOMAIN call.plan :
          /\ {1, 2} \subseteq Matched(fs[call.plan[i].source].text)
          /\ call.plan[i].source \notin call.unreadable
          /\ call.plan[i].category = Invoices
          /\ call.plan[j].source \in call.unreadable
          /\ Matched(fs[call.plan[j].source].text) # {}
          /\ call.plan[j].category = Others

\* C19: an item a custom rule matched has the target
\* <organized directory>/<rule target>/<base name>, directly under the
\* organized directory and not inside the classifier's category folder,
\* also when several rules matched it; its category is the rule's target
\* and its reason "Custom rule: <rule name>".
C19_RuleTargetUnderDirectory ==
    [][PlanStep
          => \A i \in DOMAIN call'.plan :
                call'.plan[i].reason[1] = "Custom rule: "
                   => /\ \E k \in DOMAIN ConfigRules :
                            /\ ConfigRules[k].name = call'.plan[i].reason[2]
                            /\ ConfigRules[k].target = call'.plan[i].category
                      /\ call'.plan[i].target =
                            Join(Join(call'.folder, call'.plan[i].category),
                                 PathName(call'.plan[i].source))]_vars

\* the greatest element of a non-empty set of numbers
Greatest(S) == CHOOSE x \in S : \A y \in S : x >= y

\* the rule of the configuration with a given name
RuleNamed(n) ==
    CHOOSE r \in {ConfigRules[k] : k \in DOMAIN ConfigRules} : r.name = n

\* the positions, in the profile's list of rule names, of the configured
\* rules whose condition an item meets
MatchingInProfile(f, item, profile) ==
    {j \in DOMAIN ProfileConfig(profile).rules :
        \E k \in DOMAIN ConfigRules :
            /\ ConfigRules[k].name = ProfileConfig(profile).rules[j]
            /\ _evaluate_rule_condition(f, item, ConfigRules[k].condition)}

\* the positions, in the configuration's list of rules, of the rules the
\* profile names whose condition an item meets
MatchingInConfig(f, item, profile) ==
    {k \in DOMAIN ConfigRules :
        /\ InList(ConfigRules[k].name, ProfileConfig(profile).rules)
        /\ _evaluate_rule_condition(f, item, ConfigRules[k].condition)}

\* C20 as stated: rules are applied in the order the profile lists their
\* names, and only those: an item matched by enabled rules ends with the
\* target category of the one that comes last in the profile's list, and
\* an item no enabled rule matches is not changed by any rule.
C20_RulesInProfileOrder ==
    [][PlanStep
          => \A i \in DOMAIN call'.plan :
                \E hits \in {MatchingInProfile(fs, call'.plan[i], call'.profile)} :
                   IF hits = {}
                   THEN call'.plan[i].reason[1] # "Custom rule: "
                   ELSE call'.plan[i].category =
                           RuleNamed(ProfileConfig(call'.profile).rules[Greatest(hits)]).target]_vars

\* C20 as the code has it: rules are applied in the order of the
\* configuration's list of rules, and only those the profile names: an
\* item matched by enabled rules ends with the target category and the
\* name of the one that comes last in the configuration's list, and an
\* item no enabled rule matches keeps the classifier's category, reason and
\* target.
C20_RulesInConfigOrder ==
    [][PlanStep
          => \A i \in DOMAIN call'.plan :
                \E hits \in {MatchingInConfig(fs, call'.plan[i], call'.profile)} :
                   IF hits = {}
                   THEN /\ call'.plan[i].reason[1] # "Custom rule: "
                        /\ call'.plan[i].target =
                              Join(Join(call'.folder, call'.plan[i].category),
                                   PathName(call'.plan[i].source))
                   ELSE /\ call'.plan[i].category = ConfigRules[Greatest(hits)].target
                        /\ call'.plan[i].reason =
                              <<"Custom rule: ", ConfigRules[Greatest(hits)].name>>]_vars

\* two rules named by the profile matched an item; it has the category of
\* the one that is last in the configuration and first in the profile
C20_Witness ==
    /\ call.op = "organize" /\ call.raised = ""
    /\ \E i \in DOMAIN call.plan :
          /\ MatchingInConfig(fs, call.plan[i], call.profile) = {1, 2}
          /\ ProfileConfig(call.profile).rules[1] = ConfigRules[2].name
          /\ call.plan[i].category = ConfigRules[2].target

\* the threads that have been started and have not ended
Running == {t \in Threads : monitor.threads[t].pc \notin {"unborn", "created", "dead"}}

\* the threads inside a call of organize_folder
Organizing == {t \in Threads : monitor.threads[t].pc = "organizing"}

\* C14: the file monitor serialises the engine: whatever the interleaving
\* of on_created / on_moved with the processing thread, at most one
\* _process_pending_files thread is alive and at most one call of
\* organize_folder made by the FileChangeHandler is in progress.
C14_OneOrganizeAtATime ==
    monitor.made => Cardinality(Running) <= 1 /\ Cardinality(Organizing) <= 1

\* a second processing thread is inside organize_folder after the first
\* has ended, while the Observer's thread is scheduling another file
C14_Witness ==
    /\ monitor.made
    /\ monitor.threads[1].pc = "dead"
    /\ monitor.threads[2].pc = "organizing"
    /\ monitor.observer = "check"

\* the rule of the configuration whose condition is the one tried, and the
\* other rule
Tried == IF ConfigRules[1].name = RuleTxt THEN ConfigRules[1] ELSE ConfigRules[2]
Standing == IF ConfigRules[1].name = RuleTxt THEN ConfigRules[2] ELSE ConfigRules[1]

\* the rule tried is the last of the configuration
TriedLast == ConfigRules[2].name = RuleTxt

\* a call that built a plan under the profile that names the rules tried
RulePlanStep == PlanStep /\ ProfileConfig(call'.profile).rules = <<RuleTxt, RuleBig>>

\* the other rule, "extension == 'txt' and size > 5", holds of a file
StandingHolds(f, file) ==
    /\ Exists(f, file)
    /\ Lower(Suffix(PathName(file))) = <<".","t","x","t">>
    /\ f[file].size > 5

\* whether the rule tried was the last to change an item
ByTried(item) == item.reason = <<"Custom rule: ", Tried.name>>

\* the keywords between the quotes of the filename_contains conditions
Quoted ==
    [c \in {CondInv, CondInvBill} |->
        IF c = CondInv THEN { <<"i","n","v">> }
        ELSE { <<"i","n","v">>, <<"b","i","l","l">> }]

\* C21: a condition filename_contains('<kw1>', '<kw2>', ...) holds exactly
\* when the file name, compared without regard to case, contains one of
\* the keywords between the quotes.
C21_FilenameContainsQuoted ==
    [][(RulePlanStep /\ Tried.condition \in DOMAIN Quoted)
          => \A i \in DOMAIN call'.plan :
                ((TriedLast \/ ~StandingHolds(fs, call'.plan[i].source))
                    /\ call'.plan[i].source \notin call'.gone)
                   => (ByTried(call'.plan[i])
                         <=> \E kw \in Quoted[Tried.condition] :
                                Contains(Lower(PathName(call'.plan[i].source)), Lower(kw)))]_vars

\* the extension and the size bound of the conditions of the form
\* extension == '<ext>' [and size > <bytes>]
ExtensionForm ==
    [c \in {CondJpg, CondTxt, CondBigTxt} |->
        IF c = CondJpg THEN [ext |-> <<"j","p","g">>, sized |-> FALSE, bytes |-> 0]
        ELSE IF c = CondTxt THEN [ext |-> <<"t","x","t">>, sized |-> FALSE, bytes |-> 0]
        ELSE [ext |-> <<"t","x","t">>, sized |-> TRUE, bytes |-> 5]]

\* C22: a condition extension == '<ext>', alone or with size > <bytes>,
\* holds exactly when the file's lower-cased extension is <ext> and, with
\* a size part, the file has more than <bytes> bytes.
C22_ExtensionAndSize ==
    [][(RulePlanStep /\ Tried.condition \in DOMAIN ExtensionForm)
          => \A i \in DOMAIN call'.plan :
                LET file == call'.plan[i].source
                    form == ExtensionForm[Tried.condition]
                IN  ((TriedLast \/ ~StandingHolds(fs, file)) /\ file \notin call'.gone)
                       => (ByTried(call'.plan[i])
                             <=> /\ Lower(Suffix(PathName(file))) = <<".">> \o form.ext
                                 /\ form.sized => fs[file].size > form.bytes)]_vars

\* under the condition "extension == 'txt' and size > 5" a plan holds
\* b.TXT of 10 bytes, changed by the rule, and bill.txt of exactly 5
\* bytes, left as the classifier made it
C22_Witness ==
    /\ call.op = "organize" /\ call.raised = ""
    /\ Tried.condition = CondBigTxt /\ TriedLast
    /\ \E i, j \in DOMAIN call.plan :
          /\ PathName(call.plan[i].source) = NameB /\ ByTried(call.plan[i])
          /\ PathName(call.plan[j].source) = NameBill
          /\ fs[call.plan[j].source].size = 5
          /\ call.plan[j].reason[1] # "Custom rule: "

\* the conditions that are malformed, of no known form, or whose bound is
\* no number
Malformed == {CondSizeWord, CondSizeNone, CondUnknown, CondOldWord}

\* C23: rule evaluation raises nothing to the caller of organize_folder:
\* a rule whose condition is malformed or of no known form, or whose
\* evaluation fails because the file is gone or a bound is no number, does
\* not apply to the item; the item keeps its category, reason and target,
\* and the other rules and items are processed.
C23_FailingRuleDoesNotApply ==
    [][(CallStep /\ call'.op = "organize" /\ IsDir(fs, call'.folder)
          /\ ProfileConfig(call'.profile).rules = <<RuleTxt, RuleBig>>)
          => /\ call'.raised = ""
             /\ Len(call'.plan) = Cardinality(Eligible(fs, call'.folder))
             /\ \A i \in DOMAIN call'.plan :
                   LET item == call'.plan[i]
                       fails == Tried.condition \in Malformed \/ item.source \in call'.gone
                       standing == StandingHolds(fs, item.source)
                                      /\ item.source \notin call'.gone
                   IN  /\ fails => ~ByTried(item)
                       /\ (fails /\ standing)
                             => /\ item.category = Standing.target
                                /\ item.reason = <<"Custom rule: ", Standing.name>>
                       /\ (fails /\ ~standing)
                             => /\ item.reason[1] # "Custom rule: "
                                /\ item.target = Join(Join(call'.folder, item.category),
                                                      PathName(item.source))]_vars

\* a rule whose size bound is no number comes first; the plan holds b.TXT,
\* changed by the rule that follows it, and v.txt, gone before the rules
\* were evaluated and left as the classifier made it
C23_Witness ==
    /\ call.op = "organize" /\ call.raised = ""
    /\ Tried.condition = CondSizeWord /\ ~TriedLast
    /\ \E i, j \in DOMAIN call.plan :
          /\ PathName(call.plan[i].source) = NameB
          /\ call.plan[i].category = Standing.target
          /\ call.plan[j].source \in call.gone
          /\ call.plan[j].reason[1] # "Custom rule: "

\* a step in which _handle_duplicates returned: call.plan is the plan it
\* was given, call'.plan the plan it returned
DuplicatesStep == call.op = "plan" /\ call'.op = "duplicates"

\* the items up to the i-th whose target has the base name of the i-th
Occurrence(plan, i) ==
    Cardinality({j \in 1..i : PathName(plan[j].target) = PathName(plan[i].target)})

\* the base names of the targets of the items before the i-th
NamesBefore(plan, i) == {PathName(plan[j].target) : j \in 1..(i - 1)}

\* <stem>(n)<ext> for the base name of a target
Numbered(name, n) ==
    SplitExt(name)[1] \o <<"(">> \o Str(n) \o <<")">> \o SplitExt(name)[2]

\* what _handle_duplicates never changes: the list of items, and of each
\* item everything but the base name of its target
OnlyBaseNames(before, after) ==
    /\ Len(after) = Len(before)
    /\ \A i \in DOMAIN before :
          /\ after[i].source = before[i].source
          /\ after[i].category = before[i].category
          /\ after[i].reason = before[i].reason
          /\ PathParent(after[i].target) = PathParent(before[i].target)

FixedListing(f, folder_path) == CHOOSE l \in Listings(ScanSet(f, folder_path)) : TRUE

\* the items of a plan, without their order
Items(plan) == {plan[i] : i \in DOMAIN plan}

\* C26 as stated: the plan does not depend on the order in which the
\* filesystem enumerates the folder -- whatever that order, the plan is
\* the plan built from one fixed enumeration of the same files, item by
\* item in the same order.
C26_PlanIndependentOfListing ==
    [][PlanStep
          => \E fixed \in {FixedListing(fs, call'.folder)} :
                call'.plan = ResolvedPlan(fs, fixed, call'.folder, call'.mode,
                                          call'.profile, call'.unreadable, call'.gone)]_vars

\* C26 as the code has it: the items of the plan are the same whatever
\* order the filesystem enumerates the folder in, but their order is the
\* order of the enumeration -- the i-th item is for the i-th entry listed.
C26_PlanFollowsListing ==
    [][PlanStep
          => /\ Len(call'.plan) = Len(call'.listing)
             /\ \A i \in DOMAIN call'.plan : call'.plan[i].source = call'.listing[i]
             /\ \E fixed \in {FixedListing(fs, call'.folder)} :
                \E built \in {ResolvedPlan(fs, fixed, call'.folder, call'.mode,
                                           call'.profile, call'.unreadable, call'.gone)} :
                   Items(call'.plan) = Items(built)]_vars

\* a plan was built from a folder of several files enumerated in another
\* order than the fixed one
C26_Witness ==
    /\ call.op = "organize" /\ call.raised = ""
    /\ Len(call.plan) >= 2
    /\ call.listing # FixedListing(fs, call.folder)
    /\ Len(call.listing) = Len(FixedListing(fs, call.folder))

\* C30: within organize_folder the collision resolver renames nothing --
\* in every plan organize_folder builds, in every mode, under every
\* profile and rule set, the base name of each item's target is the base
\* name of its source, and no two items have the same target base name.
C30_TargetKeepsSourceName ==
    [][PlanStep
          => /\ \A i \in DOMAIN call'.plan :
                   PathName(call'.plan[i].target) = PathName(call'.plan[i].source)
             /\ \A i, j \in DOMAIN call'.plan :
                   i # j => PathName(call'.plan[i].target) # PathName(call'.plan[j].target)]_vars

\* a plan of two items, one placed by a custom rule and one by the
\* classifier, went through the collision resolver
C30_Witness ==
    /\ call.op = "organize" /\ call.raised = ""
    /\ Len(call.plan) = 2
    /\ \E i, j \in DOMAIN call.plan :
          /\ call.plan[i].reason[1] = "Custom rule: "
          /\ call.plan[j].reason[1] # "Custom rule: "

\* a call of organize_folder that was no dry run and returned no errors is
\* followed at once by a call with the same arguments
RepeatedStep ==
    /\ call.op = "organize" /\ call.raised = "" /\ ~call.dry_run
    /\ call.results.errors = << >>
    /\ CallStep /\ call'.op = "organize"
    /\ call'.folder = call.folder /\ call'.mode = call.mode
    /\ call'.profile = call.profile /\ call'.dry_run = call.dry_run

\* C29: organize_folder is idempotent on an organised directory -- a call
\* that repeats at once, with the same arguments, a call that was no dry
\* run and returned no errors raises nothing, returns empty moved and errors
\* lists and leaves every file where the first call put it.
C29_RepeatedCallMovesNothing ==
    [][RepeatedStep
          => /\ call'.raised = ""
             /\ call'.results.moved = << >>
             /\ call'.results.errors = << >>
             /\ fs' = fs]_vars

\* two operations are logged for the same folder, mode and profile: the
\* first moved files without errors, the second, just made, moved nothing
\* and the files of the first are where it put them
C29_Witness ==
    /\ call.op = "organize" /\ call.raised = "" /\ ~call.dry_run
    /\ Len(operation_history) = 2
    /\ operation_history[1].moved_files # << >>
    /\ operation_history[1].errors = << >>
    /\ operation_history[2].folder = operation_history[1].folder
    /\ operation_history[2].mode = operation_history[1].mode
    /\ operation_history[2].profile = operation_history[1].profile
    /\ operation_history[2].moved_files = << >>
    /\ operation_history[2].errors = << >>
    /\ \A i \in DOMAIN operation_history[1].moved_files :
          IsFile(fs, operation_history[1].moved_files[i].to)

\* C28: under the monitor's recursive watch the moves organize_folder
\* makes never cause a file to be organised again -- no operation moves a
\* file away from the place an earlier operation has moved it to, into a
\* folder nested deeper.
C28_MovedFilesStay ==
    monitor.made
       => \A i, j \in DOMAIN operation_history :
             i < j =>
                \A a \in DOMAIN operation_history[i].moved_files :
                \A b \in DOMAIN operation_history[j].moved_files :
                   operation_history[j].moved_files[b].from
                      # operation_history[i].moved_files[a].to

\* the model can still start a thread and log an operation
Unbounded ==
    /\ clock < MaxOps
    /\ \E t \in Threads : monitor.threads[t].pc = "unborn"

\* the paths of the files that arrive in the watched folder
ArrivingPaths == {<<Dn, t.name>> : t \in Arriving}

\* C27: no file event is lost by the monitor -- a path put into
\* pending_files is taken out of it by a processing thread without any
\* further event, also when it was added after the running thread had
\* decided to exit while is_alive() was still true (as long as the model
\* can still start a thread and log an operation).
C27_PendingIsProcessed ==
    \A p \in ArrivingPaths :
        (p \in monitor.pending_files /\ Unbounded)
            ~> (p \notin monitor.pending_files \/ ~Unbounded)

============================================================================
